---- MODULE Spec2Model ----
(***************************************************************************)
(* Verification model of the deterministic product-signal pipeline:        *)
(*   - ExtractionContext (models.py): candidate lists, option groups,      *)
(*     raw attributes, and the extraction passes that write into it;       *)
(*   - the balanced-bracket scan of script_blob.py;                        *)
(*   - the taxonomy prefilter (taxonomy/prefilter.py);                     *)
(*   - the identity resolver (identity/resolver.py).                       *)
(*                                                                         *)
(* A Python str is a sequence of one-character strings (plus a few         *)
(* multi-character tokens such as "%20" that the code decodes as a unit).  *)
(***************************************************************************)
EXTENDS Integers, Sequences, FiniteSets, TLC

VARIABLES
    candidates,               \* ExtractionContext: the eight *_candidates lists
    option_group_candidates,  \* ExtractionContext.option_group_candidates
    raw_attributes,           \* ExtractionContext.raw_attributes
    raised,                   \* exception raised by the last call ("none" if it returned)
    log,                      \* the last calls made on the context (op, argument, pre-state facts)
    ncalls,                   \* number of calls made so far
    scan_text,                \* _extract_balanced_json: the text argument
    scan_start,               \* its start_idx argument, as a 1-based position
    scan_literal,             \* the well-formed JSON literal that starts there (<<>> if none)
    scan_pc,                  \* "ready" before the call, "done" after it
    scan_result,              \* the returned (substring, end position)
    tax_categories,           \* select_category_candidates: the categories argument
    tax_top_k,                \* its top_k argument
    tax_path,                 \* which return statement the last call left by
    tax_result,               \* the list the last call returned
    index_cache,              \* the lru_cache of _build_index, least recently used first
    index_evicted,            \* the vocabularies whose index the cache has dropped so far
    tax_calls,                \* number of select_category_candidates calls so far
    store,                    \* the Product objects: store[ref] is the record at ref
    products_by_id,           \* assign_canonical_products: the caller's mapping, as
                              \* the sequence of its (id, ref) items
    store_before,             \* the objects as they were when the call started
    resolved,                 \* the mapping the call returned, as (id, ref) items
    res_config,               \* the IdentityResolverConfig of the resolver
    res_pc,                   \* "idle", "ready" before the call, "done" after it
    asm_candidates,           \* assemble_product: the category_candidates argument
    asm_invocations,          \* the messages of each ai.responses call made so far
    asm_attempts,             \* how each attempt ended: a product or an exception
    asm_outcome,              \* what the call returned or raised to its caller
    asm_pc,                   \* "idle", "ready", "first", "retry", "returned", "raised"
    env,                      \* os.environ: Optional text of each IDENTITY_* variable
    env_config,               \* the IdentityResolverConfig that from_env returned
    env_raised,               \* the exception that from_env raised, "none" if none
    env_pc,                   \* "idle", "ready" before the call, "done" after it
    script_body,              \* iter_assigned_json_blobs: the script_body argument
    payloads,                 \* the list it returned
    iter_unclosed,            \* the matches whose bracket scan never closed, as
                              \* (pattern, position after the match)
    iter_pc                   \* "idle", "ready" before the call, "done" after it

ctxVars == <<candidates, option_group_candidates, raw_attributes, raised, log, ncalls>>
scanVars == <<scan_text, scan_start, scan_literal, scan_pc, scan_result>>

taxVars == <<tax_categories, tax_top_k, tax_path, tax_result, index_cache, index_evicted,
            tax_calls>>

resVars == <<store, products_by_id, store_before, resolved, res_config, res_pc>>

asmVars == <<asm_candidates, asm_invocations, asm_attempts, asm_outcome, asm_pc>>

\* the variables of the components modelled after the resolver
envVars == <<env, env_config, env_raised, env_pc>>

iterVars == <<script_body, payloads, iter_unclosed, iter_pc>>

laterVars == <<asmVars, envVars, iterVars>>

vars == <<ctxVars, scanVars, taxVars, resVars, laterVars>>

\* the variables the calls on a context leave alone
nonCtxVars == <<scanVars, taxVars, resVars, laterVars>>

(***************************************************************************)
(* Bounds                                                                  *)
(***************************************************************************)
MaxCalls == 2       \* calls made on one context
MaxValues == 2      \* length of a values list handed to add_candidates / merge_unique

(***************************************************************************)
(* Python str helpers                                                      *)
(***************************************************************************)
Whitespace == {" ", "\t"}

RECURSIVE LStrip(_)
LStrip(s) ==
    IF s = <<>> THEN <<>>
    ELSE IF Head(s) \in Whitespace THEN LStrip(Tail(s)) ELSE s

RECURSIVE RStrip(_)
RStrip(s) ==
    IF s = <<>> THEN <<>>
    ELSE IF s[Len(s)] \in Whitespace THEN RStrip(SubSeq(s, 1, Len(s) - 1)) ELSE s

\* str.strip()
Strip(s) == RStrip(LStrip(s))

Range(f) == {f[i] : i \in DOMAIN f}

IsPrefix(s, t) == Len(s) <= Len(t) /\ SubSeq(t, 1, Len(s)) = s

NoDuplicates(s) == \A i, j \in DOMAIN s : i # j => s[i] # s[j]

SeqsUpTo(S, n) == UNION {[1..k -> S] : k \in 0..n}

(***************************************************************************)
(* ExtractionContext                                                       *)
(***************************************************************************)
CANDIDATE_FIELDS ==
    {"title_candidates", "description_candidates", "brand_candidates",
     "price_candidates", "currency_candidates", "image_url_candidates",
     "category_hint_candidates", "key_feature_candidates"}

\* merge_unique's loop: append each cleaned value not seen yet
RECURSIVE MergeLoop(_, _)
MergeLoop(existing, values) ==
    IF values = <<>> THEN existing
    ELSE LET cleaned == Strip(Head(values))
         IN IF cleaned = <<>> \/ cleaned \in Range(existing)
            THEN MergeLoop(existing, Tail(values))
            ELSE MergeLoop(Append(existing, cleaned), Tail(values))

\* stands for a list element that is not a str (isinstance(value, str) is False)
NotStr == <<"<not-a-str>">>

\* merge_unique without the "cleaned in seen" test
merge_unique_NoSeenCheck(existing, values) ==
    existing \o SelectSeq([i \in 1..Len(values) |-> IF values[i] = NotStr THEN <<>> ELSE Strip(values[i])],
                          LAMBDA v : v # <<>>)

\* ExtractionContext.merge_unique: the value of the list field after the call
merge_unique(existing, values) ==
    MergeLoop(existing, SelectSeq(values, LAMBDA v : v # NotStr))

\* str.lower() / str.upper() on one character
LowerOf ==
    [A |-> "a", B |-> "b", C |-> "c", D |-> "d", E |-> "e", F |-> "f", G |-> "g",
     H |-> "h", I |-> "i", J |-> "j", K |-> "k", L |-> "l", M |-> "m", N |-> "n",
     O |-> "o", P |-> "p", Q |-> "q", R |-> "r", S |-> "s", T |-> "t", U |-> "u",
     V |-> "v", W |-> "w", X |-> "x", Y |-> "y", Z |-> "z"]
UpperOf ==
    [a |-> "A", b |-> "B", c |-> "C", d |-> "D", e |-> "E", f |-> "F", g |-> "G",
     h |-> "H", i |-> "I", j |-> "J", k |-> "K", l |-> "L", m |-> "M", n |-> "N",
     o |-> "O", p |-> "P", q |-> "Q", r |-> "R", s |-> "S", t |-> "T", u |-> "U",
     v |-> "V", w |-> "W", x |-> "X", y |-> "Y", z |-> "Z"]

LowerChar(c) == IF c \in DOMAIN LowerOf THEN LowerOf[c] ELSE c

UpperChar(c) == IF c \in DOMAIN UpperOf THEN UpperOf[c] ELSE c

IsLetter(c) == c \in DOMAIN LowerOf \/ c \in DOMAIN UpperOf

\* str.lower()
Lower(s) == [i \in 1..Len(s) |-> LowerChar(s[i])]

\* An OptionGroup is [dimension, options]; an OptionValue is represented by its
\* value string (available and price_delta keep their defaults in this code).
OptionGroup(dimension, options) == [dimension |-> dimension, options |-> options]

\* the inner loop of add_option_group: append the options whose value is not seen yet
RECURSIVE AppendUnseen(_, _)
AppendUnseen(existing, opts) ==
    IF opts = <<>> THEN existing
    ELSE IF Head(opts) \in Range(existing)
         THEN AppendUnseen(existing, Tail(opts))
         ELSE AppendUnseen(Append(existing, Head(opts)), Tail(opts))

\* index of the first existing group with the same dimension, ignoring case; 0 if none
ExistingGroupIndex(groups, dimension) ==
    IF \E i \in 1..Len(groups) : Lower(groups[i].dimension) = Lower(dimension)
    THEN CHOOSE i \in 1..Len(groups) :
            /\ Lower(groups[i].dimension) = Lower(dimension)
            /\ \A j \in 1..(i - 1) : Lower(groups[j].dimension) # Lower(dimension)
    ELSE 0

\* ExtractionContext.add_option_group: option_group_candidates after the call
add_option_group(groups, group) ==
    LET i == ExistingGroupIndex(groups, group.dimension)
    IN IF i > 0
       THEN [groups EXCEPT ![i].options = AppendUnseen(groups[i].options, group.options)]
       ELSE Append(groups, group)

\* ExtractionContext.add_raw_attribute: raw_attributes[key] = value
add_raw_attribute(attrs, key, value) ==
    [k \in (DOMAIN attrs) \cup {key} |-> IF k = key THEN value ELSE attrs[k]]

(***************************************************************************)
(* DOM signal extraction (dom_extraction.py)                               *)
(*                                                                         *)
(* The html handed to HTMLParser.feed is the sequence of events the parser *)
(* delivers: start tags (tag already lower-cased, attributes), text data   *)
(* and end tags.  An absent attribute is the empty string, which is how    *)
(* every attrs.get(name, "") of the code reads it.                         *)
(***************************************************************************)
NoAttrs == [itemprop |-> <<>>, content |-> <<>>, data_price |-> <<>>,
            class |-> <<>>, aria_label |-> <<>>]

StartTag(tag, attrs) == [ev |-> "start", tag |-> tag, attrs |-> attrs, data |-> <<>>]
Data(text) == [ev |-> "data", tag |-> "", attrs |-> NoAttrs, data |-> text]
EndTag(tag) == [ev |-> "end", tag |-> tag, attrs |-> NoAttrs, data |-> <<>>]

Digits == {"0", "1", "2", "3", "4", "5", "6", "7", "8", "9"}
IsWordChar(c) == IsLetter(c) \/ c \in Digits \/ c = "_"

\* str.title(): a letter is upper-cased after a non-letter, lower-cased otherwise
Title(s) ==
    [i \in 1..Len(s) |->
        IF i = 1 \/ ~IsLetter(s[i - 1]) THEN UpperChar(s[i]) ELSE LowerChar(s[i])]

\* needle in haystack
Contains(haystack, needle) ==
    \E i \in 0..(Len(haystack) - Len(needle)) :
        SubSeq(haystack, i + 1, i + Len(needle)) = needle

\* text[pos..] starts with lit, ignoring case (re.IGNORECASE on a literal)
StartsWithAt(text, pos, lit) ==
    /\ pos + Len(lit) - 1 <= Len(text)
    /\ Lower(SubSeq(text, pos, pos + Len(lit) - 1)) = lit

\* first index >= pos that holds no whitespace (Len(text) + 1 if none): the end of \s*
RECURSIVE SkipSpace(_, _)
SkipSpace(text, pos) ==
    IF pos <= Len(text) /\ text[pos] \in Whitespace THEN SkipSpace(text, pos + 1) ELSE pos

\* first index >= pos that holds no word character: the end of \w*
RECURSIVE SkipWord(_, _)
SkipWord(text, pos) ==
    IF pos <= Len(text) /\ IsWordChar(text[pos]) THEN SkipWord(text, pos + 1) ELSE pos

S_price == <<"p", "r", "i", "c", "e">>
S_availability == <<"a", "v", "a", "i", "l", "a", "b", "i", "l", "i", "t", "y">>
S_option == <<"o", "p", "t", "i", "o", "n", ":">>
S_select == <<"s", "e", "l", "e", "c", "t">>
S_Color == <<"C", "o", "l", "o", "r">>
S_http_schema_org == <<"h", "t", "t", "p", ":", "/", "/", "s", "c", "h", "e", "m", "a", ".", "o", "r", "g", "/">>
_SCHEMA_ORG_PREFIX ==
    <<"h", "t", "t", "p", "s", ":", "/", "/", "s", "c", "h", "e", "m", "a", ".", "o", "r", "g", "/">>

_NON_PRODUCT_DIMENSIONS ==
    {<<"T", "h", "u", "m", "b", "n", "a", "i", "l">>, <<"C", "o", "u", "n", "t", "r", "y">>,
     <<"Q", "u", "a", "n", "t", "i", "t", "y">>, <<"Q", "t", "y">>,
     <<"S", "t", "a", "t", "e">>, <<"L", "a", "n", "g", "u", "a", "g", "e">>}

_MIN_OPTION_VALUES == 2

NoMatch == [ok |-> FALSE, dimension |-> <<>>, value |-> <<>>]

\* _OPTION_LABEL_RE = ^(.+?)\s+Option:\s+(.+)$ : k is the length of the lazy group 1
OptionLabelAt(label, k) ==
    LET afterSp == SkipSpace(label, k + 1)
        afterLit == afterSp + Len(S_option)
        valueAt == SkipSpace(label, afterLit)
    IN /\ afterSp > k + 1
       /\ StartsWithAt(label, afterSp, S_option)
       /\ valueAt > afterLit
       /\ valueAt <= Len(label)

_OPTION_LABEL_RE(label) ==
    IF \E k \in 1..Len(label) : OptionLabelAt(label, k)
    THEN LET k == CHOOSE k \in 1..Len(label) :
                    OptionLabelAt(label, k) /\ \A j \in 1..(k - 1) : ~OptionLabelAt(label, j)
             valueAt == SkipSpace(label, SkipSpace(label, k + 1) + Len(S_option))
         IN [ok |-> TRUE, dimension |-> SubSeq(label, 1, k),
             value |-> SubSeq(label, valueAt, Len(label))]
    ELSE NoMatch

\* _SELECT_LABEL_RE = ^Select\s+(\w+)\s+(.+)$
_SELECT_LABEL_RE(label) ==
    LET wordAt == SkipSpace(label, Len(S_select) + 1)
        wordEnd == SkipWord(label, wordAt)
        valueAt == SkipSpace(label, wordEnd)
    IN IF /\ StartsWithAt(label, 1, S_select)
          /\ wordAt > Len(S_select) + 1
          /\ wordEnd > wordAt
          /\ valueAt > wordEnd
          /\ valueAt <= Len(label)
       THEN [ok |-> TRUE, dimension |-> SubSeq(label, wordAt, wordEnd - 1),
             value |-> SubSeq(label, valueAt, Len(label))]
       ELSE NoMatch

\* str.removeprefix
RemovePrefix(s, prefix) ==
    IF IsPrefix(prefix, s) THEN SubSeq(s, Len(prefix) + 1, Len(s)) ELSE s

\* _DomSignalParser.__init__
NewDomParser ==
    [price_texts |-> <<>>, option_signals |-> <<>>,
     availability |-> [is_none |-> TRUE, v |-> <<>>], price_stack |-> <<>>]

_collect_price_signals(P, tag, attrs) ==
    IF Lower(attrs.itemprop) = S_price
    THEN IF attrs.content # <<>>
         THEN [P EXCEPT !.price_texts = Append(@, attrs.content)]
         ELSE [P EXCEPT !.price_stack = Append(@, [tag |-> tag, text |-> <<>>])]
    ELSE IF attrs.data_price # <<>>
    THEN [P EXCEPT !.price_texts = Append(@, attrs.data_price)]
    ELSE IF Contains(Lower(attrs.class), S_price)
    THEN [P EXCEPT !.price_stack = Append(@, [tag |-> tag, text |-> <<>>])]
    ELSE P

_collect_option_signals(P, attrs) ==
    LET aria_label == Strip(attrs.aria_label)
        m1 == _OPTION_LABEL_RE(aria_label)
        m2 == _SELECT_LABEL_RE(aria_label)
    IN IF aria_label = <<>> THEN P
       ELSE IF m1.ok
       THEN [P EXCEPT !.option_signals =
                Append(@, <<Title(Strip(m1.dimension)), Strip(m1.value)>>)]
       ELSE IF m2.ok
       THEN [P EXCEPT !.option_signals =
                Append(@, <<Title(Strip(m2.dimension)), Strip(m2.value)>>)]
       ELSE P

_collect_availability(P, attrs) ==
    IF ~P.availability.is_none THEN P
    ELSE IF Lower(attrs.itemprop) = S_availability /\ Strip(attrs.content) # <<>>
    THEN [P EXCEPT !.availability =
            [is_none |-> FALSE, v |-> RemovePrefix(Strip(attrs.content), _SCHEMA_ORG_PREFIX)]]
    ELSE P

handle_starttag(P, tag, attrs) ==
    _collect_availability(
        _collect_option_signals(_collect_price_signals(P, tag, attrs), attrs), attrs)

handle_data(P, data) ==
    [P EXCEPT !.price_stack =
        [i \in 1..Len(P.price_stack) |->
            [P.price_stack[i] EXCEPT !.text = @ \o data]]]

handle_endtag(P, tag) ==
    LET n == Len(P.price_stack)
    IN IF n > 0 /\ P.price_stack[n].tag = tag
       THEN LET text == Strip(P.price_stack[n].text)
                popped == [P EXCEPT !.price_stack = SubSeq(@, 1, n - 1)]
            IN IF text # <<>>
               THEN [popped EXCEPT !.price_texts = Append(@, text)]
               ELSE popped
       ELSE P

\* HTMLParser.feed: deliver the events in document order
RECURSIVE DomFeed(_, _)
DomFeed(P, html) ==
    IF html = <<>> THEN P
    ELSE LET e == Head(html)
             P1 == CASE e.ev = "start" -> handle_starttag(P, e.tag, e.attrs)
                     [] e.ev = "data" -> handle_data(P, e.data)
                     [] OTHER -> handle_endtag(P, e.tag)
         IN DomFeed(P1, Tail(html))

\* _apply_price_signals: the list handed to add_candidates("price_candidates", ...)
RECURSIVE CleanedPriceTexts(_)
CleanedPriceTexts(price_texts) ==
    IF price_texts = <<>> THEN <<>>
    ELSE LET cleaned == Strip(Head(price_texts))
         IN (IF cleaned # <<>> THEN <<cleaned>> ELSE <<>>)
                \o CleanedPriceTexts(Tail(price_texts))

\* the first loop of _apply_option_groups: grouped, as a sequence of
\* [dimension, options] in insertion order of the dict
RECURSIVE GroupSignals(_, _)
GroupSignals(grouped, signals) ==
    IF signals = <<>> THEN grouped
    ELSE LET dimension == Head(signals)[1]
             value == Head(signals)[2]
             at == {i \in 1..Len(grouped) : grouped[i].dimension = dimension}
         IN IF dimension \in _NON_PRODUCT_DIMENSIONS
            THEN GroupSignals(grouped, Tail(signals))
            ELSE IF at = {}
            THEN GroupSignals(Append(grouped, OptionGroup(dimension, <<value>>)), Tail(signals))
            ELSE LET i == CHOOSE i \in at : TRUE
                 IN IF value \in Range(grouped[i].options)
                    THEN GroupSignals(grouped, Tail(signals))
                    ELSE GroupSignals([grouped EXCEPT ![i].options = Append(@, value)],
                                      Tail(signals))

\* the second loop of _apply_option_groups
RECURSIVE AddGroups(_, _)
AddGroups(groups, grouped) ==
    IF grouped = <<>> THEN groups
    ELSE IF Len(Head(grouped).options) < _MIN_OPTION_VALUES
         THEN AddGroups(groups, Tail(grouped))
         ELSE AddGroups(add_option_group(groups, Head(grouped)), Tail(grouped))

_apply_option_groups(groups, signals) == AddGroups(groups, GroupSignals(<<>>, signals))

_apply_availability(attrs, availability) ==
    IF ~availability.is_none /\ availability.v # <<>>
    THEN add_raw_attribute(attrs, "dom_availability", availability.v)
    ELSE attrs

(***************************************************************************)
(* Structured candidate mapping (mapping.py)                               *)
(*                                                                         *)
(* A decoded JSON value is [t, s, kids]: t is its Python type, s the text  *)
(* of a str (or what str(value) prints for a number or bool), kids the     *)
(* <<key, value>> pairs of a dict or the <<"", item>> pairs of a list.     *)
(***************************************************************************)
JStr(s) == [t |-> "str", s |-> s, kids |-> <<>>]
JNum(s) == [t |-> "num", s |-> s, kids |-> <<>>]
JBool(b) == [t |-> "bool", kids |-> <<>>,
             s |-> IF b THEN <<"T", "r", "u", "e">> ELSE <<"F", "a", "l", "s", "e">>]
JNull == [t |-> "null", s |-> <<>>, kids |-> <<>>]
JList(items) == [t |-> "list", s |-> <<>>,
                 kids |-> [i \in 1..Len(items) |-> <<"", items[i]>>]]
JDict(pairs) == [t |-> "dict", s |-> <<>>, kids |-> pairs]

\* dict.get(key): the value under key, JNull when the key is absent
DictGet(node, key) ==
    IF \E i \in 1..Len(node.kids) : node.kids[i][1] = key
    THEN node.kids[CHOOSE i \in 1..Len(node.kids) : node.kids[i][1] = key][2]
    ELSE JNull

HasKey(node, key) == \E i \in 1..Len(node.kids) : node.kids[i][1] = key

RECURSIVE _flatten_scalar_strings(_)
RECURSIVE FlattenItems(_)
\* isinstance(True, (int, float)) holds in Python: a bool flattens to "True"/"False"
_flatten_scalar_strings(value) ==
    CASE value.t = "str" -> <<value.s>>
      [] value.t \in {"num", "bool"} -> <<value.s>>
      [] value.t = "dict" ->
            LET pick(key) == IF DictGet(value, key).t = "str"
                             THEN <<DictGet(value, key).s>> ELSE <<>>
            IN pick("name") \o pick("value") \o pick("url") \o pick("text")
      [] value.t = "list" -> FlattenItems(value.kids)
      [] OTHER -> <<>>

FlattenItems(kids) ==
    IF kids = <<>> THEN <<>>
    ELSE _flatten_scalar_strings(Head(kids)[2]) \o FlattenItems(Tail(kids))

RECURSIVE _collect_values_for_key(_, _)
RECURSIVE WalkKids(_, _, _)
\* the nested walk(): values found under target_key, in traversal order
_collect_values_for_key(node, target_key) ==
    IF node.t \in {"dict", "list"} THEN WalkKids(node.kids, node.t = "dict", target_key)
    ELSE <<>>

WalkKids(kids, isDict, target_key) ==
    IF kids = <<>> THEN <<>>
    ELSE LET key == Head(kids)[1]
             value == Head(kids)[2]
         IN (IF isDict /\ key = target_key THEN _flatten_scalar_strings(value) ELSE <<>>)
                \o _collect_values_for_key(value, target_key)
                \o WalkKids(Tail(kids), isDict, target_key)

\* rules.json_key_to_field, in the insertion order of the dict
json_key_to_field ==
    << <<"name", "title_candidates">>, <<"title", "title_candidates">>,
       <<"productName", "title_candidates">>, <<"headline", "title_candidates">>,
       <<"description", "description_candidates">>,
       <<"shortDescription", "description_candidates">>,
       <<"metaDescription", "description_candidates">>,
       <<"subtitle", "description_candidates">>,
       <<"brand", "brand_candidates">>, <<"brandName", "brand_candidates">>,
       <<"vendor", "brand_candidates">>, <<"manufacturer", "brand_candidates">>,
       <<"price", "price_candidates">>, <<"salePrice", "price_candidates">>,
       <<"currentPrice", "price_candidates">>, <<"listPrice", "price_candidates">>,
       <<"compareAtPrice", "price_candidates">>,
       <<"priceCurrency", "currency_candidates">>, <<"currency", "currency_candidates">>,
       <<"currencyCode", "currency_candidates">>,
       <<"image", "image_url_candidates">>, <<"images", "image_url_candidates">>,
       <<"imageUrl", "image_url_candidates">>, <<"imageUrls", "image_url_candidates">>,
       <<"primaryImage", "image_url_candidates">>,
       <<"category", "category_hint_candidates">>,
       <<"productType", "category_hint_candidates">>,
       <<"breadcrumb", "category_hint_candidates">>,
       <<"positiveNotes", "key_feature_candidates">>,
       <<"keyFeatures", "key_feature_candidates">>,
       <<"features", "key_feature_candidates">>,
       <<"highlights", "key_feature_candidates">>,
       <<"benefits", "key_feature_candidates">> >>

color_keys == {"color", "colour", "colors", "colourways",
               "colorDescription", "colorName", "hues", "swatchColors"}

structured_passthrough_keys == {"variants", "options", "option_groups"}

\* urllib.parse.unquote on the escapes that occur: "%20" is one token of the text
Unquote(s) == [i \in 1..Len(s) |-> IF s[i] = "%20" THEN " " ELSE s[i]]

_decode_color_value(value) == Unquote(value)

\* the dedup loop of _emit_color_option_group: the options list
RECURSIVE ColorOptions(_, _)
ColorOptions(options, color_values) ==
    IF color_values = <<>> THEN options
    ELSE LET value == Strip(Head(color_values))
         IN IF value # <<>> /\ value \notin Range(options)
            THEN ColorOptions(Append(options, value), Tail(color_values))
            ELSE ColorOptions(options, Tail(color_values))

\* _emit_color_option_group emitting a group for a single color
_emit_color_option_group_AnyCount(groups, color_values) ==
    LET options == ColorOptions(<<>>, color_values)
    IN IF Len(options) >= 1
       THEN add_option_group(groups, OptionGroup(S_Color, options))
       ELSE groups

_emit_color_option_group(groups, color_values) ==
    LET options == ColorOptions(<<>>, color_values)
    IN IF Len(options) >= 2
       THEN add_option_group(groups, OptionGroup(S_Color, options))
       ELSE groups

\* the first loop of collect_candidates_from_node (image_transform is None)
RECURSIVE AddMappedKeys(_, _, _)
AddMappedKeys(cands, node, rules) ==
    IF rules = <<>> THEN cands
    ELSE LET key == Head(rules)[1]
             field_name == Head(rules)[2]
             values == _collect_values_for_key(node, key)
         IN AddMappedKeys(
                [cands EXCEPT ![field_name] = merge_unique(cands[field_name], values)],
                node, Tail(rules))

\* color_values for one iteration order of the color_keys frozenset
RECURSIVE ColorValues(_, _)
ColorValues(node, keyOrder) ==
    IF keyOrder = <<>> THEN <<>>
    ELSE LET found == _collect_values_for_key(node, Head(keyOrder))
         IN [i \in 1..Len(found) |-> _decode_color_value(found[i])]
                \o ColorValues(node, Tail(keyOrder))

RECURSIVE PyStrLen(_)
RECURSIVE PyStrLenKids(_, _)
\* len(str(val)) of a decoded JSON value
PyStrLen(node) ==
    CASE node.t = "str" -> Len(node.s) + 2
      [] node.t \in {"num", "bool"} -> Len(node.s)
      [] node.t = "null" -> 4
      [] OTHER -> 2 + PyStrLenKids(node.kids, node.t = "dict")

PyStrLenKids(kids, isDict) ==
    IF kids = <<>> THEN 0
    ELSE (IF isDict THEN Len(Head(kids)[1]) + 4 ELSE 0)
            + PyStrLen(Head(kids)[2])
            + (IF Len(kids) > 1 THEN 2 ELSE 0)
            + PyStrLenKids(Tail(kids), isDict)

StructuredSizeCap == 100000

NotFound == [found |-> FALSE, value |-> JNull]

RECURSIVE _find_structured_value(_, _)
RECURSIVE FindInKids(_, _)
\* first list or dict value under target_key, own key before children
_find_structured_value(node, target_key) ==
    IF node.t = "dict"
    THEN LET val == DictGet(node, target_key)
         IN IF /\ HasKey(node, target_key)
               /\ val.t \in {"list", "dict"}
               /\ PyStrLen(val) < StructuredSizeCap
            THEN [found |-> TRUE, value |-> val]
            ELSE FindInKids(node.kids, target_key)
    ELSE IF node.t = "list" THEN FindInKids(node.kids, target_key)
    ELSE NotFound

FindInKids(kids, target_key) ==
    IF kids = <<>> THEN NotFound
    ELSE LET r == _find_structured_value(Head(kids)[2], target_key)
         IN IF r.found THEN r ELSE FindInKids(Tail(kids), target_key)

RECURSIVE EscapeJson(_)
EscapeJson(s) ==
    IF s = <<>> THEN <<>>
    ELSE (IF Head(s) \in {"\"", "\\"} THEN <<"\\", Head(s)>> ELSE <<Head(s)>>)
            \o EscapeJson(Tail(s))

RECURSIVE Dumps(_)
RECURSIVE DumpsKids(_, _)
\* json.dumps(value): the text, a dict key being one token of it
Dumps(node) ==
    CASE node.t = "str" -> <<"\"">> \o EscapeJson(node.s) \o <<"\"">>
      [] node.t = "num" -> node.s
      [] node.t = "bool" -> Lower(node.s)
      [] node.t = "null" -> <<"n", "u", "l", "l">>
      [] node.t = "list" -> <<"[">> \o DumpsKids(node.kids, FALSE) \o <<"]">>
      [] OTHER -> <<"{">> \o DumpsKids(node.kids, TRUE) \o <<"}">>

DumpsKids(kids, isDict) ==
    IF kids = <<>> THEN <<>>
    ELSE (IF isDict THEN <<"\"", Head(kids)[1], "\"", ":", " ">> ELSE <<>>)
            \o Dumps(Head(kids)[2])
            \o (IF Len(kids) > 1 THEN <<",", " ">> ELSE <<>>)
            \o DumpsKids(Tail(kids), isDict)

\* the passthrough loop of collect_candidates_from_node (the keys are distinct,
\* so the iteration order of the frozenset does not matter)
RECURSIVE AddPassthrough(_, _, _)
AddPassthrough(attrs, node, keys) ==
    IF keys = {} THEN attrs
    ELSE LET key == CHOOSE k \in keys : TRUE
             r == _find_structured_value(node, key)
         IN AddPassthrough(
                IF r.found THEN add_raw_attribute(attrs, key, JStr(Dumps(r.value))) ELSE attrs,
                node, keys \ {key})

\* key.startswith("@") for the keys that occur
JsonLdMetadataKeys == {"@type", "@context", "@id", "@graph"}

_should_skip_raw_attribute(key, value, known_keys) ==
    \/ key \in JsonLdMetadataKeys
    \/ key \in known_keys
    \/ value.t \notin {"str", "num", "bool"}

MappedKeys == {json_key_to_field[i][1] : i \in 1..Len(json_key_to_field)}

\* the last loop of collect_candidates_from_node over node.items()
RECURSIVE AddPrimitives(_, _)
AddPrimitives(attrs, kids) ==
    IF kids = <<>> THEN attrs
    ELSE LET key == Head(kids)[1]
             value == Head(kids)[2]
         IN AddPrimitives(
                IF _should_skip_raw_attribute(key, value, MappedKeys \cup color_keys)
                THEN attrs ELSE add_raw_attribute(attrs, key, value),
                Tail(kids))

\* iteration orders of the color_keys frozenset, restricted to the keys under
\* which the node holds values (the other keys contribute nothing)
ColorKeyOrders(node) ==
    LET present == {k \in color_keys : _collect_values_for_key(node, k) # <<>>}
    IN {o \in [1..Cardinality(present) -> present] :
            \A i, j \in DOMAIN o : i # j => o[i] # o[j]}

GroupsFor(groups, dimension) ==
    SelectSeq(groups, LAMBDA g : Lower(g.dimension) = Lower(dimension))

AllDimensions(groups) == {groups[i].dimension : i \in 1..Len(groups)}

\* the distinct values a DOM pass over html sees for a dimension
DomSeenValues(html, dimension) ==
    LET signals == DomFeed(NewDomParser, html).option_signals
    IN {signals[i][2] : i \in {j \in 1..Len(signals) : signals[j][1] = dimension}}

DomSeenDimensions(html) ==
    LET signals == DomFeed(NewDomParser, html).option_signals
    IN {signals[i][1] : i \in 1..Len(signals)}

\* the dimensions for which a DOM pass over html sees at least 2 distinct values
DomSeenTwice(html) ==
    {d \in DomSeenDimensions(html) : Cardinality(DomSeenValues(html, d)) >= 2}

\* the distinct non-empty trimmed color values a mapping pass over node sees
NodeSeenColors(node) ==
    UNION {{Strip(Unquote(v)) : v \in Range(_collect_values_for_key(node, k))} : k \in color_keys}
        \ {<<>>}

\* the dimensions for which a mapping pass over node sees at least 2 distinct values
NodeSeenTwice(node) ==
    IF Cardinality(NodeSeenColors(node)) >= 2 THEN {S_Color} ELSE {}

(***************************************************************************)
(* HTML signal collection (html_signals.py).  The documents of the model   *)
(* carry none of the data-product-object, data-product, data-colorways,    *)
(* data-product-color and data-color-swatch attributes, and their meta     *)
(* keys come from itemprop.                                                *)
(***************************************************************************)
S_amp == <<"&", "a", "m", "p", ";">>

RECURSIVE HtmlUnescape(_)
\* html.unescape on the one character reference the documents can hold
HtmlUnescape(s) ==
    IF s = <<>> THEN <<>>
    ELSE IF Len(s) >= Len(S_amp) /\ SubSeq(s, 1, Len(S_amp)) = S_amp
    THEN <<"&">> \o HtmlUnescape(SubSeq(s, Len(S_amp) + 1, Len(s)))
    ELSE <<Head(s)>> \o HtmlUnescape(Tail(s))

\* _SignalParser()
NewSignalParser ==
    [scripts |-> <<>>, meta_tags |-> <<>>, data_json |-> <<>>, data_color_values |-> <<>>,
     in_script |-> FALSE, _script_attrs |-> NoAttrs, _script_chunks |-> <<>>]

\* _SignalParser.handle_starttag / handle_data / handle_endtag on one event
SignalEvent(p, e) ==
    IF e.ev = "start"
    THEN IF e.tag = "script"
         THEN [p EXCEPT !.in_script = TRUE, !._script_attrs = e.attrs,
                        !._script_chunks = <<>>]
         ELSE LET key == Strip(e.attrs.itemprop)
                  content == Strip(e.attrs.content)
              IN IF key # <<>> /\ content # <<>>
                 THEN [p EXCEPT !.meta_tags = Append(@,
                            [key |-> Lower(key), content |-> HtmlUnescape(content)])]
                 ELSE p
    ELSE IF e.ev = "data"
    THEN IF p.in_script THEN [p EXCEPT !._script_chunks = @ \o e.data] ELSE p
    ELSE IF e.tag # "script" \/ ~p.in_script
    THEN p
    ELSE [p EXCEPT !.scripts = Append(@, [attrs |-> p._script_attrs,
                                          body |-> HtmlUnescape(Strip(p._script_chunks))]),
                   !.in_script = FALSE, !._script_attrs = NoAttrs,
                   !._script_chunks = <<>>]

RECURSIVE SignalFeed(_, _)
\* parser.feed(html_text)
SignalFeed(p, html) ==
    IF html = <<>> THEN p ELSE SignalFeed(SignalEvent(p, Head(html)), Tail(html))

\* extract_html_signals(html_text): the tuple it returns
extract_html_signals(html) ==
    LET parser == SignalFeed(NewSignalParser, html)
    IN <<parser.scripts, parser.meta_tags, parser.data_json, parser.data_color_values>>

\* the number of names on the left of "scripts, meta_tags = ..."
UnpackTargets == 2

(***************************************************************************)
(* Taxonomy prefilter (taxonomy/prefilter.py)                              *)
(***************************************************************************)
\* ord(c) of the letters
OrdOf ==
    [A |-> 65, B |-> 66, C |-> 67, D |-> 68, E |-> 69, F |-> 70, G |-> 71,
     H |-> 72, I |-> 73, J |-> 74, K |-> 75, L |-> 76, M |-> 77, N |-> 78,
     O |-> 79, P |-> 80, Q |-> 81, R |-> 82, S |-> 83, T |-> 84, U |-> 85,
     V |-> 86, W |-> 87, X |-> 88, Y |-> 89, Z |-> 90, a |-> 97, b |-> 98,
     c |-> 99, d |-> 100, e |-> 101, f |-> 102, g |-> 103, h |-> 104, i |->
     105, j |-> 106, k |-> 107, l |-> 108, m |-> 109, n |-> 110, o |-> 111,
     p |-> 112, q |-> 113, r |-> 114, s |-> 115, t |-> 116, u |-> 117, v
     |-> 118, w |-> 119, x |-> 120, y |-> 121, z |-> 122]

\* ord(c) of the other characters a label of the model can hold
OrdOfOther ==
    ("\t" :> 9) @@ (" " :> 32) @@ ("&" :> 38) @@ (">" :> 62) @@ ("_" :> 95) @@ ("|" :> 124)
        @@ ("0" :> 48) @@ ("1" :> 49) @@ ("2" :> 50) @@ ("3" :> 51) @@ ("4" :> 52)
        @@ ("5" :> 53) @@ ("6" :> 54) @@ ("7" :> 55) @@ ("8" :> 56) @@ ("9" :> 57)

\* ord(c)
Ord(c) == IF c \in DOMAIN OrdOf THEN OrdOf[c] ELSE OrdOfOther[c]

RECURSIVE StrLess(_, _)
\* a < b on Python strings: code point order, a proper prefix first
StrLess(a, b) ==
    IF b = <<>> THEN FALSE
    ELSE IF a = <<>> THEN TRUE
    ELSE IF Head(a) = Head(b) THEN StrLess(Tail(a), Tail(b))
    ELSE Ord(Head(a)) < Ord(Head(b))

RECURSIVE Sorted_Descending(_)
\* sorted(S, reverse=True)
Sorted_Descending(S) ==
    IF S = {} THEN <<>>
    ELSE LET greatest == CHOOSE x \in S : \A y \in S \ {x} : StrLess(y, x)
         IN <<greatest>> \o Sorted_Descending(S \ {greatest})

RECURSIVE Sorted(_)
\* sorted(S) of a set of strings
Sorted(S) ==
    IF S = {} THEN <<>>
    ELSE LET least == CHOOSE x \in S : \A y \in S \ {x} : StrLess(x, y)
         IN <<least>> \o Sorted(S \ {least})

\* the categories argument: None, or a list of labels
None == [is_none |-> TRUE, labels |-> <<>>]
CategoryList(labels) == [is_none |-> FALSE, labels |-> labels]

\* models.VALID_CATEGORIES: the lines of categories.txt
VALID_CATEGORIES == {<<"D", "d">>, <<"A", "a", " ", ">", " ", "B", "b">>}

\* _materialize_categories without the strip of each value
_materialize_categories_NoStrip(categories) ==
    IF categories = None THEN Sorted(VALID_CATEGORIES)
    ELSE Sorted({v \in Range(categories.labels) : Strip(v) # <<>>})

\* _materialize_categories(categories)
_materialize_categories(categories) ==
    IF categories = None THEN Sorted(VALID_CATEGORIES)
    ELSE Sorted({Strip(v) : v \in {w \in Range(categories.labels) : Strip(w) # <<>>}})

_STOPWORDS ==
    {<<"a">>, <<"a", "n">>, <<"a", "n", "d">>, <<"a", "t">>, <<"b", "y">>,
     <<"f", "o", "r">>, <<"f", "r", "o", "m">>, <<"i", "n">>, <<"o", "f">>,
     <<"o", "n">>, <<"o", "r">>, <<"t", "h", "e">>, <<"t", "o">>,
     <<"w", "i", "t", "h">>}

\* [a-z0-9]: the lower-case letters are the characters str.upper() changes
IsTokenChar(c) == c \in DOMAIN UpperOf \/ c \in Digits

RECURSIVE FindAllTokens(_, _)
\* _TOKEN_PATTERN.findall(text): the maximal runs of token characters; run is the
\* run being read
FindAllTokens(text, run) ==
    IF text = <<>> THEN (IF run = <<>> THEN <<>> ELSE <<run>>)
    ELSE IF IsTokenChar(Head(text)) THEN FindAllTokens(Tail(text), Append(run, Head(text)))
    ELSE (IF run = <<>> THEN <<>> ELSE <<run>>) \o FindAllTokens(Tail(text), <<>>)

\* _tokenize(value)
_tokenize(value) ==
    SelectSeq(FindAllTokens(Lower(value), <<>>),
              LAMBDA token : token \notin _STOPWORDS /\ Len(token) > 1)

\* values[:n]
Take(values, n) == SubSeq(values, 1, IF n < Len(values) THEN n ELSE Len(values))

RECURSIVE TokenizeAll(_)
TokenizeAll(values) ==
    IF values = <<>> THEN <<>> ELSE _tokenize(Head(values)) \o TokenizeAll(Tail(values))

\* _build_query_terms(context)
_build_query_terms(ctx) ==
    TokenizeAll(Take(ctx["title_candidates"], 3) \o Take(ctx["brand_candidates"], 2)
                    \o Take(ctx["category_hint_candidates"], 3))

\* _build_index(categories) without the cache: the categories and their token lists
BuildIndex(categories) ==
    [categories |-> categories,
     tokenized |-> [i \in DOMAIN categories |-> _tokenize(categories[i])]]

\* @lru_cache(maxsize=4)
IndexCacheSize == 4

\* the cache after _build_index(categories): a hit becomes the most recently used
\* entry, a miss is added and the least recently used entry goes when the cache
\* is full
CacheAfter(cache, categories) ==
    LET others == SelectSeq(cache, LAMBDA e : e.categories # categories)
        kept == IF Len(others) >= IndexCacheSize THEN Tail(others) ELSE others
    IN IF Len(others) < Len(cache)
       THEN Append(others, BuildIndex(categories))
       ELSE Append(kept, BuildIndex(categories))

\* the keys of the cache that _build_index(categories) drops
EvictedBy(cache, categories) ==
    LET after == CacheAfter(cache, categories)
    IN {cache[i].categories : i \in DOMAIN cache}
            \ {after[i].categories : i \in DOMAIN after}

\* a cache that finds an entry by the number of labels of its key
_build_index_KeyedByLength(cache, categories) ==
    IF \E i \in DOMAIN cache : Len(cache[i].categories) = Len(categories)
    THEN cache[CHOOSE i \in DOMAIN cache : Len(cache[i].categories) = Len(categories)]
    ELSE BuildIndex(categories)

\* _build_index(categories) behind @lru_cache: the entry stored under the key
\* categories when there is one, a newly built index otherwise
_build_index(cache, categories) ==
    IF \E i \in DOMAIN cache : cache[i].categories = categories
    THEN cache[CHOOSE i \in DOMAIN cache : cache[i].categories = categories]
    ELSE BuildIndex(categories)

\* a float score; BM25Okapi works in numpy floats, which can be nan
Score(v) == [isnan |-> FALSE, v |-> v]
NaN == [isnan |-> TRUE, v |-> 0]

MaxScore == 2       \* largest score in the model; scores are -1 .. MaxScore

\* index.bm25.get_scores(query_terms): rank_bm25 is not part of this repository,
\* so a score is any value that has the sign BM25Okapi gives it.  The score of a
\* label is the sum, over the query tokens it holds, of idf(token) times a
\* positive weight.  With n labels of which df hold the token, idf is
\* log(n - df + 0.5) - log(df + 0.5): positive when 2*df < n, zero when
\* 2*df = n; a negative idf is replaced by 0.25 times the average idf of all
\* tokens, which is negative when no token has a positive idf.  A label that
\* shares no token with the query scores 0; when no label has any token the
\* average document length is 0 and every score is 0/0.
IdfSign(index, token) ==
    LET n == Len(index.categories)
        df(t) == Cardinality({i \in 1..n : t \in Range(index.tokenized[i])})
        words == UNION {Range(index.tokenized[i]) : i \in 1..n}
    IN IF 2 * df(token) < n THEN "positive"
       ELSE IF 2 * df(token) = n THEN "zero"
       ELSE IF \A w \in words : 2 * df(w) >= n THEN "negative"
       ELSE "any"

GetScores(index, query_terms) ==
    LET n == Len(index.categories)
        signs(i) == {IdfSign(index, t) :
                        t \in Range(index.tokenized[i]) \cap Range(query_terms)}
        fits(i, v) ==
            IF signs(i) \subseteq {"zero"} THEN v = 0
            ELSE IF signs(i) \subseteq {"zero", "positive"} THEN v > 0
            ELSE IF signs(i) \subseteq {"zero", "negative"} THEN v < 0
            ELSE TRUE
    IN IF \A i \in 1..n : index.tokenized[i] = <<>>
       THEN {[i \in 1..n |-> Score(0)], [i \in 1..n |-> NaN]}
       ELSE {raw \in [1..n -> {Score(v) : v \in (-1)..MaxScore}] :
                \A i \in 1..n : fits(i, raw[i].v)}

\* (-a[0], a[1]) < (-b[0], b[1]) on (score, category) pairs; every comparison
\* with nan is false
ScoredBefore(a, b) ==
    /\ ~a[1].isnan
    /\ ~b[1].isnan
    /\ \/ a[1].v > b[1].v
       \/ a[1].v = b[1].v /\ StrLess(a[2], b[2])

RECURSIVE SortScored(_)
\* list.sort(key=...) on pairs whose categories are distinct; a list in which no
\* pair compares below another keeps its order
SortScored(scored) ==
    IF scored = <<>> THEN <<>>
    ELSE LET firsts == {i \in DOMAIN scored :
                            \A j \in DOMAIN scored : ~ScoredBefore(scored[j], scored[i])}
             k == CHOOSE i \in firsts : \A j \in firsts : i <= j
         IN <<scored[k]>> \o SortScored(SubSeq(scored, 1, k - 1)
                                            \o SubSeq(scored, k + 1, Len(scored)))

\* _score_categories(index, query_terms), given the raw scores
_score_categories(index, raw_scores) ==
    SortScored([i \in DOMAIN index.categories |-> <<raw_scores[i], index.categories[i]>>])

RECURSIVE CollectLoop(_, _, _)
CollectLoop(scored, unique, limit) ==
    IF scored = <<>> THEN unique
    ELSE IF \E i \in DOMAIN unique : unique[i] = Head(scored)[2]
    THEN CollectLoop(Tail(scored), unique, limit)
    ELSE IF Len(unique) + 1 >= limit THEN Append(unique, Head(scored)[2])
    ELSE CollectLoop(Tail(scored), Append(unique, Head(scored)[2]), limit)

\* _collect_unique_categories(scored, limit)
_collect_unique_categories(scored, limit) == CollectLoop(scored, <<>>, limit)

S_separator == <<" ", ">", " ">>

RECURSIVE FirstSegment(_)
\* category.split(" > ", 1)[0]
FirstSegment(category) ==
    IF category = <<>> THEN <<>>
    ELSE IF Len(category) >= 3 /\ SubSeq(category, 1, 3) = S_separator THEN <<>>
    ELSE <<Head(category)>> \o FirstSegment(Tail(category))

InSeq(x, s) == \E i \in DOMAIN s : s[i] = x

RECURSIVE FallbackPass1_NoSeen(_, _, _)
\* pass 1 without the "if segment in seen: continue"
FallbackPass1_NoSeen(categories, ordered, top_k) ==
    IF categories = <<>> THEN [ordered |-> ordered, full |-> FALSE]
    ELSE LET segment == FirstSegment(Head(categories))
         IN IF Len(ordered) + 1 >= top_k
            THEN [ordered |-> Append(ordered, segment), full |-> TRUE]
            ELSE FallbackPass1_NoSeen(Tail(categories), Append(ordered, segment), top_k)

RECURSIVE FallbackPass1(_, _, _)
\* pass 1 of _fallback_categories: seen is the set of strings in ordered; full
\* says that the loop left by its return
FallbackPass1(categories, ordered, top_k) ==
    IF categories = <<>> THEN [ordered |-> ordered, full |-> FALSE]
    ELSE LET segment == FirstSegment(Head(categories))
         IN IF InSeq(segment, ordered)
            THEN FallbackPass1(Tail(categories), ordered, top_k)
            ELSE IF Len(ordered) + 1 >= top_k
            THEN [ordered |-> Append(ordered, segment), full |-> TRUE]
            ELSE FallbackPass1(Tail(categories), Append(ordered, segment), top_k)

RECURSIVE FallbackPass2(_, _, _)
\* pass 2 of _fallback_categories
FallbackPass2(categories, ordered, top_k) ==
    IF categories = <<>> THEN ordered
    ELSE IF InSeq(Head(categories), ordered)
    THEN FallbackPass2(Tail(categories), ordered, top_k)
    ELSE IF Len(ordered) + 1 >= top_k THEN Append(ordered, Head(categories))
    ELSE FallbackPass2(Tail(categories), Append(ordered, Head(categories)), top_k)

\* _fallback_categories without pass 2
_fallback_categories_Pass1Only(categories, top_k) ==
    IF top_k <= 0 THEN <<>>
    ELSE FallbackPass1(categories, <<>>, top_k).ordered

\* _fallback_categories(categories, top_k)
_fallback_categories(categories, top_k) ==
    IF top_k <= 0 THEN <<>>
    ELSE LET pass1 == FallbackPass1(categories, <<>>, top_k)
         IN IF pass1.full THEN pass1.ordered
            ELSE FallbackPass2(categories, pass1.ordered, top_k)

Min(a, b) == IF a < b THEN a ELSE b

\* the score vectors get_scores can return to a call of
\* select_category_candidates; a call that returns before it scores nothing
ScoresOf(ctx, categories, top_k, cache) ==
    LET category_tuple == _materialize_categories(categories)
        query_terms == _build_query_terms(ctx)
    IN IF top_k > 0 /\ category_tuple # <<>> /\ query_terms # <<>>
       THEN GetScores(_build_index(cache, category_tuple), query_terms)
       ELSE {[i \in DOMAIN category_tuple |-> Score(0)]}

\* select_category_candidates(context, categories, top_k), given the scores that
\* get_scores returns and the cache of _build_index: the return statement taken
\* and the list returned
select_category_candidates(ctx, categories, top_k, raw_scores, cache) ==
    LET category_tuple == _materialize_categories(categories)
        index == _build_index(cache, category_tuple)
        query_terms == _build_query_terms(ctx)
        scored == _score_categories(index, raw_scores)
    IN IF top_k <= 0 THEN [path |-> "top_k", result |-> <<>>]
       ELSE IF category_tuple = <<>> THEN [path |-> "empty", result |-> <<>>]
       ELSE IF query_terms = <<>>
       THEN [path |-> "fallback", result |-> _fallback_categories(index.categories, top_k)]
       ELSE IF scored = <<>> \/ (~scored[1][1].isnan /\ scored[1][1].v <= 0)
       THEN [path |-> "fallback", result |-> _fallback_categories(index.categories, top_k)]
       ELSE [path |-> "ranked",
             result |-> _collect_unique_categories(scored,
                            Min(top_k, Len(index.categories)))]

(***************************************************************************)
(* Identity resolver (identity/resolver.py).  A float is modelled by the   *)
(* rational it stands for, as [n, d] with d > 0.  An Optional value is a   *)
(* sequence of length 0 (None) or 1.                                       *)
(***************************************************************************)
RECURSIVE GCD(_, _)
GCD(a, b) == IF b = 0 THEN a ELSE GCD(b, a % b)

\* the rational n/d in lowest terms
R(n, d) ==
    LET g == GCD(IF n < 0 THEN -n ELSE n, d)
    IN [n |-> n \div g, d |-> d \div g]
RAdd(a, b) == R(a.n * b.d + b.n * a.d, a.d * b.d)
RMul(a, b) == R(a.n * b.n, a.d * b.d)
RDiv(a, b) == R(a.n * b.d, a.d * b.n)
RLess(a, b) == a.n * b.d < b.n * a.d
REq(a, b) == a.n * b.d = b.n * a.d
RMax(a, b) == IF RLess(a, b) THEN b ELSE a

\* IdentityResolverConfig(): the defaults
DefaultConfig ==
    [match_threshold |-> R(72, 100), title_brand_min_similarity |-> R(62, 100),
     upc_weight |-> R(75, 100), title_brand_weight |-> R(25, 100)]

RECURSIVE SubNonAlnum(_, _)
\* _NON_ALNUM.sub(" ", text): every run of other characters becomes one space;
\* inRun says that the character before was part of such a run
SubNonAlnum(text, inRun) ==
    IF text = <<>> THEN <<>>
    ELSE IF IsTokenChar(Head(text)) THEN <<Head(text)>> \o SubNonAlnum(Tail(text), FALSE)
    ELSE IF inRun THEN SubNonAlnum(Tail(text), TRUE)
    ELSE <<" ">> \o SubNonAlnum(Tail(text), TRUE)

\* _normalize_text(value)
_normalize_text(value) == Strip(SubNonAlnum(Strip(Lower(value)), FALSE))

\* SequenceMatcher.find_longest_match(alo, ahi, blo, bhi) without junk: the
\* longest block a[i..i+k-1] = b[j..j+k-1] inside the two ranges (1-based,
\* inclusive), the one that starts earliest in a and then earliest in b
LongestMatch(a, alo, ahi, b, blo, bhi) ==
    LET blocks == {blk \in (alo..ahi) \X (blo..bhi) \X (1..(ahi - alo + 1)) :
                      /\ blk[1] + blk[3] - 1 <= ahi
                      /\ blk[2] + blk[3] - 1 <= bhi
                      /\ SubSeq(a, blk[1], blk[1] + blk[3] - 1)
                            = SubSeq(b, blk[2], blk[2] + blk[3] - 1)}
    IN IF blocks = {} THEN <<alo, blo, 0>>
       ELSE CHOOSE blk \in blocks : \A other \in blocks :
                \/ blk[3] > other[3]
                \/ blk[3] = other[3] /\ blk[1] < other[1]
                \/ blk[3] = other[3] /\ blk[1] = other[1] /\ blk[2] <= other[2]

RECURSIVE MatchingSize(_, _, _, _, _, _)
\* the total size of SequenceMatcher.get_matching_blocks()
MatchingSize(a, alo, ahi, b, blo, bhi) ==
    IF alo > ahi \/ blo > bhi THEN 0
    ELSE LET blk == LongestMatch(a, alo, ahi, b, blo, bhi)
         IN IF blk[3] = 0 THEN 0
            ELSE blk[3] + MatchingSize(a, alo, blk[1] - 1, b, blo, blk[2] - 1)
                        + MatchingSize(a, blk[1] + blk[3], ahi, b, blk[2] + blk[3], bhi)

\* SequenceMatcher(None, a, b).ratio()
Ratio(a, b) ==
    IF Len(a) + Len(b) = 0 THEN R(1, 1)
    ELSE R(2 * MatchingSize(a, 1, Len(a), b, 1, Len(b)), Len(a) + Len(b))

\* _title_brand_similarity(left, right)
_title_brand_similarity(left, right) ==
    RAdd(RMul(R(75, 100), Ratio(_normalize_text(left.name), _normalize_text(right.name))),
         RMul(R(25, 100), Ratio(_normalize_text(left.brand), _normalize_text(right.brand))))

RECURSIVE Words(_, _)
\* the maximal runs of word characters of a text; run is the run being read
Words(text, run) ==
    IF text = <<>> THEN (IF run = <<>> THEN {} ELSE {run})
    ELSE IF IsWordChar(Head(text)) THEN Words(Tail(text), Append(run, Head(text)))
    ELSE (IF run = <<>> THEN {} ELSE {run}) \cup Words(Tail(text), <<>>)

\* set(_GTIN_PATTERN.findall(field)): \b\d{8,14}\b matches the runs of word
\* characters that are 8 to 14 digits and nothing else
GtinCodesIn(field) ==
    {w \in Words(field, <<>>) :
        Len(w) >= 8 /\ Len(w) <= 14 /\ \A i \in DOMAIN w : w[i] \in Digits}

\* _extract_gtin_codes(product)
_extract_gtin_codes(product) ==
    LET fields == <<product.name, product.description, product.brand>>
                    \o product.key_features
                    \o SelectSeq(product.source_urls, LAMBDA url : url # <<>>)
    IN UNION {GtinCodesIn(fields[i]) : i \in DOMAIN fields}

\* MatchEvidence(signal, score, matched, details)
MatchEvidence(signal, score, matched, shared_codes, left_brand, right_brand, reason) ==
    [signal |-> signal, score |-> score, matched |-> matched,
     details |-> [shared_codes |-> shared_codes, left_brand |-> left_brand,
                  right_brand |-> right_brand, reason |-> reason]]

\* the pair scored without the floor of 0.95 under a shared code
_evaluate_pair_NoFloor(config, left, right) ==
    LET shared_gtins == Sorted(_extract_gtin_codes(left) \cap _extract_gtin_codes(right))
        upc_score == IF shared_gtins # <<>> THEN R(1, 1) ELSE R(0, 1)
        title_brand_score == _title_brand_similarity(left, right)
        weighted == RAdd(RMul(config.upc_weight, upc_score),
                         RMul(config.title_brand_weight, title_brand_score))
        total_weight == RAdd(config.upc_weight, config.title_brand_weight)
        confidence == IF total_weight.n > 0 THEN RDiv(weighted, total_weight) ELSE R(0, 1)
    IN [matched |-> shared_gtins # <<>> \/ ~RLess(confidence, config.match_threshold),
        confidence |-> confidence,
        evidence |->
            <<MatchEvidence("upc_gtin_exact_match", upc_score, shared_gtins # <<>>,
                            <<shared_gtins>>, <<>>, <<>>, <<>>),
              MatchEvidence("title_brand_similarity", title_brand_score,
                            ~RLess(title_brand_score, config.title_brand_min_similarity),
                            <<>>, <<left.brand>>, <<right.brand>>, <<>>)>>]

\* _evaluate_pair(left, right)
_evaluate_pair(config, left, right) ==
    LET shared_gtins == Sorted(_extract_gtin_codes(left) \cap _extract_gtin_codes(right))
        upc_score == IF shared_gtins # <<>> THEN R(1, 1) ELSE R(0, 1)
        title_brand_score == _title_brand_similarity(left, right)
        evidence ==
            <<MatchEvidence("upc_gtin_exact_match", upc_score, shared_gtins # <<>>,
                            <<shared_gtins>>, <<>>, <<>>, <<>>),
              MatchEvidence("title_brand_similarity", title_brand_score,
                            ~RLess(title_brand_score, config.title_brand_min_similarity),
                            <<>>, <<left.brand>>, <<right.brand>>, <<>>)>>
        weighted == RAdd(RMul(config.upc_weight, upc_score),
                         RMul(config.title_brand_weight, title_brand_score))
        total_weight == RAdd(config.upc_weight, config.title_brand_weight)
        plain == IF total_weight.n > 0 THEN RDiv(weighted, total_weight) ELSE R(0, 1)
        confidence == IF shared_gtins # <<>> THEN RMax(plain, R(95, 100)) ELSE plain
    IN [matched |-> shared_gtins # <<>> \/ ~RLess(confidence, config.match_threshold),
        confidence |-> confidence,
        evidence |-> evidence]

\* a placeholder that carries the GTIN entry alone
_singleton_decision_OneEntry ==
    [matched |-> FALSE,
     confidence |-> R(0, 1),
     evidence |-> <<MatchEvidence("upc_gtin_exact_match", R(0, 1), FALSE,
                                  <<>>, <<>>, <<>>, <<"no_other_products">>)>>]

\* _singleton_decision()
_singleton_decision ==
    [matched |-> FALSE,
     confidence |-> R(0, 1),
     evidence |-> <<MatchEvidence("upc_gtin_exact_match", R(0, 1), FALSE,
                                  <<>>, <<>>, <<>>, <<"no_other_products">>),
                    MatchEvidence("title_brand_similarity", R(0, 1), FALSE,
                                  <<>>, <<>>, <<>>, <<"no_other_products">>)>>]

RECURSIVE BestLoop(_, _, _, _)
\* the loop of _best_candidate: best is <<>> while best_result is None, else
\* <<[id, result]>>
BestLoop(pid, others, pairwise, best) ==
    IF others = <<>> THEN best
    ELSE LET other_id == Head(others)
             result == pairwise[<<pid, other_id>>]
             taken == <<[id |-> other_id, result |-> result]>>
         IN IF other_id = pid THEN BestLoop(pid, Tail(others), pairwise, best)
            ELSE IF best = <<>> THEN BestLoop(pid, Tail(others), pairwise, taken)
            ELSE IF RLess(best[1].result.confidence, result.confidence)
            THEN BestLoop(pid, Tail(others), pairwise, taken)
            ELSE IF REq(result.confidence, best[1].result.confidence)
                    /\ StrLess(other_id, best[1].id)
            THEN BestLoop(pid, Tail(others), pairwise, taken)
            ELSE BestLoop(pid, Tail(others), pairwise, best)

\* the best candidate with ties broken by the larger id
_best_candidate_LargestId(pid, ids, pairwise) ==
    LET others == {id \in Range(ids) : id # pid}
        best == CHOOSE id \in others : \A other \in others :
                    \/ RLess(pairwise[<<pid, other>>].confidence,
                             pairwise[<<pid, id>>].confidence)
                    \/ /\ REq(pairwise[<<pid, other>>].confidence,
                              pairwise[<<pid, id>>].confidence)
                       /\ (other = id \/ StrLess(other, id))
    IN IF others = {} THEN [best_id |-> <<>>, best_result |-> _singleton_decision]
       ELSE [best_id |-> <<best>>, best_result |-> pairwise[<<pid, best>>]]

\* _best_candidate(pid, ids, pairwise): (best_id, best_result), best_id Optional
_best_candidate(pid, ids, pairwise) ==
    LET best == BestLoop(pid, ids, pairwise, <<>>)
    IN IF best = <<>> THEN [best_id |-> <<>>, best_result |-> _singleton_decision]
       ELSE [best_id |-> <<best[1].id>>, best_result |-> best[1].result]

RECURSIVE Reachable(_, _, _)
\* the nodes that a path of edges joins to one of the nodes in found
Reachable(found, nodes, edges) ==
    LET more == {n \in nodes : \E m \in found : <<m, n>> \in edges}
    IN IF more \subseteq found THEN found ELSE Reachable(found \cup more, nodes, edges)

\* components made of a node and its direct neighbours only
_connected_components_DirectOnly(pairwise) ==
    LET nodes == {key[1] : key \in DOMAIN pairwise}
        edges == {key \in DOMAIN pairwise : pairwise[key].matched}
    IN {{n} \cup {m \in nodes : <<n, m>> \in edges} : n \in nodes}

\* _connected_components(pairwise): the node sets of nx.connected_components; the
\* nodes are the ids that occur in a key of pairwise
_connected_components(pairwise) ==
    LET nodes == {key[1] : key \in DOMAIN pairwise}
        edges == {key \in DOMAIN pairwise : pairwise[key].matched}
    IN {Reachable({n}, nodes, edges) : n \in nodes}

RECURSIVE Join(_, _)
\* sep.join(parts)
Join(sep, parts) ==
    IF parts = <<>> THEN <<>>
    ELSE IF Len(parts) = 1 THEN parts[1]
    ELSE parts[1] \o sep \o Join(sep, Tail(parts))

\* hashlib.sha256(key).hexdigest()[:16]: the digest is a function of the key
\* alone, and two keys met in one run are taken to have different digests
Sha256Hex16(key) == [sha256_of |-> key]

\* _canonical_id_for_component(component)
_canonical_id_for_component(component) ==
    [prefix |-> "cp_", digest |-> Sha256Hex16(Join(<<"|", "|">>, Sorted(component)))]

\* the keys of a mapping given as (id, ref) items
Keys(items) == {items[i][1] : i \in DOMAIN items}
\* mapping[id]
RefOf(items, id) == items[CHOOSE i \in DOMAIN items : items[i][1] = id][2]

\* no copy: the new mapping holds the caller's own objects
CopyProducts_Alias(objects, items) == [store |-> objects, products |-> items]

\* {pid: product.model_copy(deep=True) for pid, product in products_by_id.items()}:
\* every copy is a new object, added at the end of the store
CopyProducts(objects, items) ==
    [store |-> objects \o [i \in DOMAIN items |-> objects[items[i][2]]],
     products |-> [i \in DOMAIN items |-> <<items[i][1], Len(objects) + i>>]]

\* MatchDecision(candidate_product_id, matched, confidence, threshold, evidence)
MatchDecision(candidate_product_id, matched, confidence, threshold, evidence) ==
    [candidate_product_id |-> candidate_product_id, matched |-> matched,
     confidence |-> confidence, threshold |-> threshold, evidence |-> evidence]

\* the position of an id in the mapping's insertion order
PositionOf(items, id) == CHOOSE i \in DOMAIN items : items[i][1] = id

\* the pairwise dict with each pair evaluated in insertion order, not id order
PairwiseResults_InsertionOrder(config, objects, products, ids) ==
    [key \in {k \in Range(ids) \X Range(ids) : k[1] # k[2]} |->
        IF PositionOf(products, key[1]) < PositionOf(products, key[2])
        THEN _evaluate_pair(config, objects[RefOf(products, key[1])],
                                    objects[RefOf(products, key[2])])
        ELSE _evaluate_pair(config, objects[RefOf(products, key[2])],
                                    objects[RefOf(products, key[1])])]

\* the first loop of assign_canonical_products: pairwise[(left_id, right_id)] and
\* pairwise[(right_id, left_id)] hold the one result of each unordered pair
PairwiseResults(config, objects, products, ids) ==
    [key \in {k \in Range(ids) \X Range(ids) : k[1] # k[2]} |->
        IF StrLess(key[1], key[2])
        THEN _evaluate_pair(config, objects[RefOf(products, key[1])],
                                    objects[RefOf(products, key[2])])
        ELSE _evaluate_pair(config, objects[RefOf(products, key[2])],
                                    objects[RefOf(products, key[1])])]

\* the rest of assign_canonical_products, from the copies and the pairwise dict
AssignFromPairwise(config, copied, ids, pairwise) ==
    LET products == copied.products
        components == _connected_components(pairwise)
        canonical(pid) == _canonical_id_for_component(
                                CHOOSE component \in components : pid \in component)
        decision(pid) ==
            LET best == _best_candidate(pid, ids, pairwise)
            IN MatchDecision(best.best_id, best.best_result.matched,
                             best.best_result.confidence, config.match_threshold,
                             best.best_result.evidence)
        pidAt(ref) == products[CHOOSE i \in DOMAIN products : products[i][2] = ref][1]
        written == {products[i][2] : i \in DOMAIN products}
    IN [store |-> [ref \in DOMAIN copied.store |->
                    IF ref \notin written THEN copied.store[ref]
                    ELSE [copied.store[ref] EXCEPT
                            !.canonical_product_id =
                                IF \E component \in components : pidAt(ref) \in component
                                THEN <<canonical(pidAt(ref))>> ELSE @,
                            !.match_decision = <<decision(pidAt(ref))>>]],
        products |-> products]

\* assign_canonical_products(products_by_id): the store and the returned mapping;
\* the pairwise dict is built once, before the loops that read it
assign_canonical_products(config, objects, items) ==
    IF items = <<>> THEN [store |-> objects, products |-> <<>>]
    ELSE
    LET copied == CopyProducts(objects, items)
        ids == Sorted(Keys(copied.products))
    IN CHOOSE out \in
           {AssignFromPairwise(config, copied, ids, pairwise) :
                pairwise \in {PairwiseResults(config, copied.store,
                                              copied.products, ids) @@ <<>>}} : TRUE

(***************************************************************************)
(* Balanced-bracket scan (script_blob.py).  Positions are 1-based: the     *)
(* Python index i is position i + 1, so "the position immediately after"   *)
(* a literal that ends at position e is e + 1, and len(text) is            *)
(* Len(text) + 1.                                                          *)
(***************************************************************************)
NoBlob == [found |-> FALSE, blob |-> <<>>, end |-> 0]

RECURSIVE ScanFrom(_, _, _, _, _, _, _)
\* the for loop of _extract_balanced_json, from position i on
ScanFrom(text, start_idx, i, depth, in_string, escaped, brackets) ==
    IF i > Len(text) THEN [NoBlob EXCEPT !.end = Len(text) + 1]
    ELSE LET ch == text[i]
         IN IF in_string
            THEN IF escaped
                 THEN ScanFrom(text, start_idx, i + 1, depth, TRUE, FALSE, brackets)
                 ELSE IF ch = "\\"
                 THEN ScanFrom(text, start_idx, i + 1, depth, TRUE, TRUE, brackets)
                 ELSE IF ch = "\""
                 THEN ScanFrom(text, start_idx, i + 1, depth, FALSE, escaped, brackets)
                 ELSE ScanFrom(text, start_idx, i + 1, depth, TRUE, escaped, brackets)
            ELSE IF ch = "\""
            THEN ScanFrom(text, start_idx, i + 1, depth, TRUE, escaped, brackets)
            ELSE IF ch = brackets[1]
            THEN ScanFrom(text, start_idx, i + 1, depth + 1, FALSE, escaped, brackets)
            ELSE IF ch = brackets[2]
            THEN IF depth - 1 = 0
                 THEN [found |-> TRUE, blob |-> SubSeq(text, start_idx, i), end |-> i + 1]
                 ELSE ScanFrom(text, start_idx, i + 1, depth - 1, FALSE, escaped, brackets)
            ELSE ScanFrom(text, start_idx, i + 1, depth, FALSE, escaped, brackets)

\* the same loop with the escape flag never set: a backslash is an ordinary character
RECURSIVE ScanFromNoEscape(_, _, _, _, _, _)
ScanFromNoEscape(text, start_idx, i, depth, in_string, brackets) ==
    IF i > Len(text) THEN [NoBlob EXCEPT !.end = Len(text) + 1]
    ELSE LET ch == text[i]
         IN IF ch = "\""
            THEN ScanFromNoEscape(text, start_idx, i + 1, depth, ~in_string, brackets)
            ELSE IF in_string
            THEN ScanFromNoEscape(text, start_idx, i + 1, depth, TRUE, brackets)
            ELSE IF ch = brackets[1]
            THEN ScanFromNoEscape(text, start_idx, i + 1, depth + 1, FALSE, brackets)
            ELSE IF ch = brackets[2]
            THEN IF depth - 1 = 0
                 THEN [found |-> TRUE, blob |-> SubSeq(text, start_idx, i), end |-> i + 1]
                 ELSE ScanFromNoEscape(text, start_idx, i + 1, depth - 1, FALSE, brackets)
            ELSE ScanFromNoEscape(text, start_idx, i + 1, depth, FALSE, brackets)

_extract_balanced_json_NoEscape(text, start_idx) ==
    LET opening == text[start_idx]
        closing == IF opening = "{" THEN "}" ELSE "]"
    IN ScanFromNoEscape(text, start_idx, start_idx, 0, FALSE, <<opening, closing>>)

\* _extract_balanced_json(text, start_idx)
_extract_balanced_json(text, start_idx) ==
    LET opening == text[start_idx]
        closing == IF opening = "{" THEN "}" ELSE "]"
    IN ScanFrom(text, start_idx, start_idx, 0, FALSE, FALSE, <<opening, closing>>)

(***************************************************************************)
(* Assigned JSON blobs of a script body (script_blob.py).  Positions are   *)
(* 1-based as in the scan above; position 0 stands for no match and for    *)
(* the -1 of _next_json_start.  json.loads is modelled for JSON texts      *)
(* whose numbers are integers.                                             *)
(***************************************************************************)
ParseFail == [ok |-> FALSE, value |-> JNull, next |-> 0]
Parsed(value, next) == [ok |-> TRUE, value |-> value, next |-> next]

\* the parse that follows a first parse: nothing after a failure
Then(first, Rest(_)) == CHOOSE out \in {IF r.ok THEN Rest(r) ELSE ParseFail : r \in first} : TRUE

\* text[pos..] starts with lit
ExactAt(text, pos, lit) ==
    /\ pos + Len(lit) - 1 <= Len(text)
    /\ SubSeq(text, pos, pos + Len(lit) - 1) = lit

RECURSIVE SkipDigits(_, _)
SkipDigits(text, pos) ==
    IF pos <= Len(text) /\ text[pos] \in Digits THEN SkipDigits(text, pos + 1) ELSE pos

RECURSIVE JsonStringBody(_, _, _)
\* the characters of a JSON string from pos to its closing quote; acc is the value
\* read so far
JsonStringBody(text, pos, acc) ==
    IF pos > Len(text) THEN ParseFail
    ELSE IF text[pos] = "\"" THEN [ok |-> TRUE, value |-> acc, next |-> pos + 1]
    ELSE IF text[pos] \in {"\t", "\n", "\r", "\f"} THEN ParseFail
    ELSE IF text[pos] # "\\" THEN JsonStringBody(text, pos + 1, Append(acc, text[pos]))
    ELSE IF pos + 1 > Len(text) THEN ParseFail
    ELSE IF text[pos + 1] \in {"\"", "\\", "/"}
    THEN JsonStringBody(text, pos + 2, Append(acc, text[pos + 1]))
    ELSE IF text[pos + 1] = "n" THEN JsonStringBody(text, pos + 2, Append(acc, "\n"))
    ELSE IF text[pos + 1] = "t" THEN JsonStringBody(text, pos + 2, Append(acc, "\t"))
    ELSE IF text[pos + 1] = "r" THEN JsonStringBody(text, pos + 2, Append(acc, "\r"))
    ELSE IF text[pos + 1] = "f" THEN JsonStringBody(text, pos + 2, Append(acc, "\f"))
    ELSE ParseFail

\* an integer at pos: -?(0|[1-9][0-9]*)
JsonNumber(text, pos) ==
    LET first == IF text[pos] = "-" THEN pos + 1 ELSE pos
        end == SkipDigits(text, first)
    IN IF end = first THEN ParseFail
       ELSE IF text[first] = "0" /\ end > first + 1 THEN ParseFail
       ELSE Parsed(JNum(SubSeq(text, pos, end - 1)), end)

\* dict[key] = value on the (key, value) pairs of a dict: a key keeps its place
DictSet(pairs, key, value) ==
    IF \E i \in DOMAIN pairs : pairs[i][1] = key
    THEN [i \in DOMAIN pairs |-> IF pairs[i][1] = key THEN <<key, value>> ELSE pairs[i]]
    ELSE Append(pairs, <<key, value>>)

RECURSIVE JsonValue(_, _)
RECURSIVE JsonElements(_, _, _)
RECURSIVE JsonMembers(_, _, _)

\* the elements of an array from pos on, up to its closing bracket
JsonElements(text, pos, acc) ==
    Then({JsonValue(text, pos)}, LAMBDA v :
        IF SkipSpace(text, v.next) > Len(text) THEN ParseFail
        ELSE IF text[SkipSpace(text, v.next)] = "]"
        THEN Parsed(JList(Append(acc, v.value)), SkipSpace(text, v.next) + 1)
        ELSE IF text[SkipSpace(text, v.next)] = ","
        THEN JsonElements(text, SkipSpace(text, SkipSpace(text, v.next) + 1),
                          Append(acc, v.value))
        ELSE ParseFail)

\* the members of an object from pos on, up to its closing brace
JsonMembers(text, pos, acc) ==
    IF pos > Len(text) \/ text[pos] # "\"" THEN ParseFail
    ELSE Then({JsonStringBody(text, pos + 1, <<>>)}, LAMBDA k :
        IF SkipSpace(text, k.next) > Len(text) \/ text[SkipSpace(text, k.next)] # ":"
        THEN ParseFail
        ELSE Then({JsonValue(text, SkipSpace(text, SkipSpace(text, k.next) + 1))}, LAMBDA v :
            IF SkipSpace(text, v.next) > Len(text) THEN ParseFail
            ELSE IF text[SkipSpace(text, v.next)] = "}"
            THEN Parsed(JDict(DictSet(acc, k.value, v.value)), SkipSpace(text, v.next) + 1)
            ELSE IF text[SkipSpace(text, v.next)] = ","
            THEN JsonMembers(text, SkipSpace(text, SkipSpace(text, v.next) + 1),
                             DictSet(acc, k.value, v.value))
            ELSE ParseFail))

\* the JSON value that starts at pos
JsonValue(text, pos) ==
    IF pos > Len(text) THEN ParseFail
    ELSE IF text[pos] = "\""
    THEN Then({JsonStringBody(text, pos + 1, <<>>)}, LAMBDA r : Parsed(JStr(r.value), r.next))
    ELSE IF text[pos] = "["
    THEN IF SkipSpace(text, pos + 1) <= Len(text) /\ text[SkipSpace(text, pos + 1)] = "]"
         THEN Parsed(JList(<<>>), SkipSpace(text, pos + 1) + 1)
         ELSE JsonElements(text, SkipSpace(text, pos + 1), <<>>)
    ELSE IF text[pos] = "{"
    THEN IF SkipSpace(text, pos + 1) <= Len(text) /\ text[SkipSpace(text, pos + 1)] = "}"
         THEN Parsed(JDict(<<>>), SkipSpace(text, pos + 1) + 1)
         ELSE JsonMembers(text, SkipSpace(text, pos + 1), <<>>)
    ELSE IF ExactAt(text, pos, <<"t", "r", "u", "e">>) THEN Parsed(JBool(TRUE), pos + 4)
    ELSE IF ExactAt(text, pos, <<"f", "a", "l", "s", "e">>) THEN Parsed(JBool(FALSE), pos + 5)
    ELSE IF ExactAt(text, pos, <<"n", "u", "l", "l">>) THEN Parsed(JNull, pos + 4)
    ELSE JsonNumber(text, pos)

\* _safe_json_loads(value) for a value that starts with a bracket: Optional payload
_safe_json_loads(value) ==
    CHOOSE out \in {IF r.ok /\ SkipSpace(value, r.next) = Len(value) + 1
                    THEN <<r.value>> ELSE <<>> :
                        r \in {JsonValue(value, SkipSpace(value, 1))}} : TRUE

\* the alternatives of the two patterns
GlobalObjects == {<<"w", "i", "n", "d", "o", "w">>, <<"s", "e", "l", "f">>,
                  <<"g", "l", "o", "b", "a", "l", "T", "h", "i", "s">>}
VarKeywords == {<<"v", "a", "r">>, <<"l", "e", "t">>, <<"c", "o", "n", "s", "t">>}

\* the position after the one word of the set that text[pos..] starts with, else 0
KeywordEnd(text, pos, words) ==
    IF \E w \in words : ExactAt(text, pos, w)
    THEN pos + Len(CHOOSE w \in words : ExactAt(text, pos, w))
    ELSE 0

RECURSIVE GlobalTail(_, _)
\* (?:[A-Za-z0-9_]+\.)*[A-Za-z0-9_]+\s*= from pos on: the position after "=", else 0
GlobalTail(text, pos) ==
    IF SkipWord(text, pos) = pos THEN 0
    ELSE IF SkipWord(text, pos) <= Len(text) /\ text[SkipWord(text, pos)] = "."
    THEN GlobalTail(text, SkipWord(text, pos) + 1)
    ELSE IF SkipSpace(text, SkipWord(text, pos)) <= Len(text)
            /\ text[SkipSpace(text, SkipWord(text, pos))] = "="
    THEN SkipSpace(text, SkipWord(text, pos)) + 1
    ELSE 0

RECURSIVE SkipIdent(_, _)
\* the end of [A-Za-z0-9_$]*
SkipIdent(text, pos) ==
    IF pos <= Len(text) /\ (IsWordChar(text[pos]) \/ text[pos] = "$")
    THEN SkipIdent(text, pos + 1) ELSE pos

\* pattern.match at pos: the position after the match, 0 if the pattern does not
\* match there
MatchEnd(pattern, text, pos) ==
    IF pattern = "_GLOBAL_ASSIGNMENT_RE"
    THEN LET dot == KeywordEnd(text, pos, GlobalObjects)
         IN IF dot = 0 \/ dot > Len(text) \/ text[dot] # "." THEN 0
            ELSE GlobalTail(text, dot + 1)
    ELSE LET kw == KeywordEnd(text, pos, VarKeywords)
             name == SkipSpace(text, kw)
             eq == SkipSpace(text, SkipIdent(text, name + 1))
         IN IF kw = 0 \/ name = kw \/ name > Len(text) THEN 0
            ELSE IF ~(IsLetter(text[name]) \/ text[name] \in {"_", "$"}) THEN 0
            ELSE IF eq > Len(text) \/ text[eq] # "=" THEN 0
            ELSE eq + 1

\* pattern.search(text, idx).end(): the position after the first match that starts
\* at idx or later, 0 if there is none
SearchEnd(pattern, text, idx) ==
    LET starts == {i \in idx..Len(text) : MatchEnd(pattern, text, i) > 0}
    IN IF starts = {} THEN 0
       ELSE MatchEnd(pattern, text, CHOOSE i \in starts : \A j \in starts : i <= j)

RECURSIVE _next_json_start(_, _)
\* _next_json_start(text, start_idx)
_next_json_start(text, start_idx) ==
    IF start_idx > Len(text) THEN 0
    ELSE IF text[start_idx] \in {"{", "["} THEN start_idx
    ELSE IF text[start_idx] = ";" THEN 0
    ELSE _next_json_start(text, start_idx + 1)

\* the state of the loops of iter_assigned_json_blobs; unclosed is history
NoBlobs == [payloads |-> <<>>, seen_ranges |-> {}, unclosed |-> <<>>]

\* lines 34-42: what one match with a JSON start adds
AfterScan(pattern, match_end, json_start, scan, acc) ==
    IF ~scan.found
    THEN [acc EXCEPT !.unclosed = Append(@, <<pattern, match_end>>)]
    ELSE IF <<json_start, scan.end>> \in acc.seen_ranges THEN acc
    ELSE [acc EXCEPT !.seen_ranges = @ \cup {<<json_start, scan.end>>},
                     !.payloads = @ \o _safe_json_loads(scan.blob)]

RECURSIVE WhileLoop(_, _, _, _)
\* the while loop of one pattern, from idx on (lines 25-43)
WhileLoop(pattern, text, idx, acc) ==
    CHOOSE out \in
        {IF end = 0 THEN acc
         ELSE IF _next_json_start(text, end) = 0 THEN WhileLoop(pattern, text, end, acc)
         ELSE CHOOSE after \in
                {WhileLoop(pattern, text, scan.end,
                           AfterScan(pattern, end, _next_json_start(text, end), scan, acc)) :
                    scan \in {_extract_balanced_json(text, _next_json_start(text, end))}} :
                TRUE :
            end \in {SearchEnd(pattern, text, idx)}} : TRUE

\* iter_assigned_json_blobs(script_body)
iter_assigned_json_blobs(text) ==
    CHOOSE out \in
        {WhileLoop("_VAR_ASSIGNMENT_RE", text, 1, first) :
            first \in {WhileLoop("_GLOBAL_ASSIGNMENT_RE", text, 1, NoBlobs)}} : TRUE

(***************************************************************************)
(* LLM assembler (assemble/assemble.py).  ai.responses is not part of the  *)
(* sources: one call of it returns a draft that passed the draft schema,   *)
(* or raises a ValidationError, or raises some other exception.  A text is *)
(* a sequence of pieces.                                                   *)
(***************************************************************************)
NoOutcome == [kind |-> "none", text |-> <<>>]
ProductOutcome(category) == [kind |-> "product", text |-> category]
Raises(kind, text) == [kind |-> kind, text |-> text]

\* Category.validate_name_exists, reached through Product.model_validate
IsValidCategory(name) == name \in VALID_CATEGORIES

\* _materialize_product(draft, category_candidates): the product, or the exception
_materialize_product(draft, category_candidates) ==
    IF category_candidates = <<>>
    THEN Raises("ValueError", <<"category_candidates must not be empty">>)
    ELSE IF draft.category_choice - 1 < 0
            \/ draft.category_choice - 1 >= Len(category_candidates)
    THEN Raises("ValueError", <<"Invalid category_choice">>)
    ELSE IF ~IsValidCategory(category_candidates[draft.category_choice])
    THEN Raises("ValidationError",
                <<"Category '">> \o category_candidates[draft.category_choice]
                    \o <<"' is not a valid category in categories.txt">>)
    ELSE ProductOutcome(category_candidates[draft.category_choice])

\* the prompt built without the validation error
build_prompt_NoError(category_candidates, validation_error) ==
    <<[role |-> "system", content |-> <<[part |-> "_SYSTEM_PROMPT", text |-> <<>>]>>],
      [role |-> "user",
       content |-> <<[part |-> "categories", text |-> Join(<<"\n">>, category_candidates)],
                     [part |-> "signals", text |-> <<>>]>>]>>

\* build_prompt(context, category_candidates, validation_error=...): the system
\* message and the user message; validation_error is Optional, and an empty text
\* is as good as none
build_prompt(category_candidates, validation_error) ==
    <<[role |-> "system", content |-> <<[part |-> "_SYSTEM_PROMPT", text |-> <<>>]>>],
      [role |-> "user",
       content |-> <<[part |-> "categories", text |-> Join(<<"\n">>, category_candidates)],
                     [part |-> "signals", text |-> <<>>]>>
                   \o (IF validation_error # <<>> /\ validation_error[1] # <<>>
                       THEN <<[part |-> "validation_error", text |-> validation_error[1]]>>
                       ELSE <<>>)]>>

\* one attempt: the answer of ai.responses, then _materialize_product on a draft
AttemptOutcome(response, category_candidates) ==
    IF response.kind = "draft" THEN _materialize_product(response, category_candidates)
    ELSE Raises(response.kind, response.text)

(***************************************************************************)
(* Resolver configuration from the environment (identity/resolver.py).     *)
(* A float is a rational [n, d]; d = 0 stands for the values that are not  *)
(* finite: nan is 0/0, inf is 1/0 and -inf is -1/0.                        *)
(***************************************************************************)
EnvNames == {"IDENTITY_MATCH_THRESHOLD", "IDENTITY_TITLE_BRAND_MIN_SIMILARITY",
             "IDENTITY_UPC_WEIGHT", "IDENTITY_TITLE_BRAND_WEIGHT"}

DigitValue(c) == CHOOSE v \in 0..9 : <<"0", "1", "2", "3", "4", "5", "6", "7", "8", "9">>[v + 1] = c

RECURSIVE Pow10(_)
Pow10(k) == IF k = 0 THEN 1 ELSE 10 * Pow10(k - 1)

\* a run of digits in a float literal: digits, with single underscores between them
IsDigitRun(run) ==
    /\ run # <<>>
    /\ \A i \in DOMAIN run : run[i] \in Digits \/ run[i] = "_"
    /\ run[1] # "_" /\ run[Len(run)] # "_"
    /\ \A i \in 1..(Len(run) - 1) : ~(run[i] = "_" /\ run[i + 1] = "_")

RECURSIVE DigitRunValue(_, _)
\* the number a run of digits stands for; acc is the value read so far
DigitRunValue(run, acc) ==
    IF run = <<>> THEN acc
    ELSE IF Head(run) = "_" THEN DigitRunValue(Tail(run), acc)
    ELSE DigitRunValue(Tail(run), 10 * acc + DigitValue(Head(run)))

DigitCount(run) == Cardinality({i \in DOMAIN run : run[i] \in Digits})

\* the first position of one of the characters in a text, 0 if there is none
FirstOf(text, chars) ==
    IF \E i \in DOMAIN text : text[i] \in chars
    THEN CHOOSE i \in DOMAIN text : text[i] \in chars /\ \A j \in 1..(i - 1) : text[j] \notin chars
    ELSE 0

\* the value of an expression, worked out once and handed to what uses it
With(value, Body(_)) == CHOOSE out \in {Body(v) : v \in value} : TRUE

\* the number of a literal that is whole "." fraction "e" exponent, <<>> where the
\* literal is not one that float() accepts
Decimal(sign, whole, fraction, has_exponent, exponent) ==
    LET esigned == exponent # <<>> /\ exponent[1] \in {"+", "-"}
        edigits == IF esigned THEN Tail(exponent) ELSE exponent
        e == IF ~has_exponent THEN 0
             ELSE IF esigned /\ exponent[1] = "-" THEN -DigitRunValue(edigits, 0)
             ELSE DigitRunValue(edigits, 0)
        n == DigitRunValue(whole, 0) * Pow10(DigitCount(fraction)) + DigitRunValue(fraction, 0)
        d == Pow10(DigitCount(fraction))
    IN IF /\ whole # <<>> \/ fraction # <<>>
          /\ whole = <<>> \/ IsDigitRun(whole)
          /\ fraction = <<>> \/ IsDigitRun(fraction)
          /\ ~has_exponent \/ IsDigitRun(edigits)
       THEN <<IF e >= 0 THEN R(sign * n * Pow10(e), d) ELSE R(sign * n, d * Pow10(-e))>>
       ELSE <<>>

\* the mantissa and the exponent of a literal without its sign
Mantissa(sign, mantissa, has_exponent, exponent) ==
    With({FirstOf(mantissa, {"."})}, LAMBDA dot :
        IF dot = 0 THEN Decimal(sign, mantissa, <<>>, has_exponent, exponent)
        ELSE Decimal(sign, SubSeq(mantissa, 1, dot - 1),
                     SubSeq(mantissa, dot + 1, Len(mantissa)), has_exponent, exponent))

\* a literal without its sign: inf, infinity and nan in any case, or a decimal
Unsigned(sign, body) ==
    IF Lower(body) \in {<<"i", "n", "f">>, <<"i", "n", "f", "i", "n", "i", "t", "y">>}
    THEN <<[n |-> sign, d |-> 0]>>
    ELSE IF Lower(body) = <<"n", "a", "n">> THEN <<[n |-> 0, d |-> 0]>>
    ELSE With({FirstOf(body, {"e", "E"})}, LAMBDA epos :
            IF epos = 0 THEN Mantissa(sign, body, FALSE, <<>>)
            ELSE With({SubSeq(body, 1, epos - 1)}, LAMBDA mantissa :
                    Mantissa(sign, mantissa, TRUE, SubSeq(body, epos + 1, Len(body)))))

\* float(raw): <<>> where Python raises ValueError, else the one value
FloatOf(raw) ==
    With({Strip(raw)}, LAMBDA text :
        IF text # <<>> /\ text[1] \in {"+", "-"}
        THEN With({Tail(text)}, LAMBDA body : Unsigned(IF text[1] = "-" THEN -1 ELSE 1, body))
        ELSE Unsigned(1, text))

\* the value returned, or the exception raised
Returned(value) == [raised |-> "none", value |-> value]

\* _read_env_float with the ValueError of float() left uncaught
_read_env_float_Uncaught(environ, name, default) ==
    IF environ[name] = <<>> THEN Returned(default)
    ELSE With({FloatOf(environ[name][1])}, LAMBDA parsed :
            IF parsed = <<>> THEN [raised |-> "ValueError", value |-> default]
            ELSE Returned(parsed[1]))

\* _read_env_float(name, default)
_read_env_float(environ, name, default) ==
    IF environ[name] = <<>> THEN Returned(default)
    ELSE With({FloatOf(environ[name][1])}, LAMBDA parsed :
            IF parsed = <<>> THEN Returned(default) ELSE Returned(parsed[1]))

\* IdentityResolverConfig.from_env(): the four reads in the order of the call; the
\* first exception ends the call
from_env(environ) ==
    With({<<_read_env_float(environ, "IDENTITY_MATCH_THRESHOLD", R(72, 100)),
            _read_env_float(environ, "IDENTITY_TITLE_BRAND_MIN_SIMILARITY", R(62, 100)),
            _read_env_float(environ, "IDENTITY_UPC_WEIGHT", R(75, 100)),
            _read_env_float(environ, "IDENTITY_TITLE_BRAND_WEIGHT", R(25, 100))>>},
         LAMBDA reads :
            IF \E i \in 1..4 : reads[i].raised # "none"
            THEN [raised |-> reads[CHOOSE i \in 1..4 : reads[i].raised # "none"
                                    /\ \A j \in 1..(i - 1) : reads[j].raised = "none"].raised,
                  value |-> DefaultConfig]
            ELSE Returned([match_threshold |-> reads[1].value,
                           title_brand_min_similarity |-> reads[2].value,
                           upc_weight |-> reads[3].value,
                           title_brand_weight |-> reads[4].value]))

\* history of the last call: its name, the group handed to add_option_group and
\* whether its dimension was new, the dimensions an extraction pass saw twice,
\* the node handed to collect_candidates_from_node, the html handed to
\* extract_dom_signals
NoCall == [op |-> "none", group |-> OptionGroup(<<>>, <<>>), fresh |-> FALSE,
           twice |-> {}, node |-> JNull, html |-> <<>>]

(***************************************************************************)
(* Inputs                                                                  *)
(***************************************************************************)
RawValues == {<<" ">>, <<"a">>, <<" ", "A", "\t">>, NotStr}
InputFields == {"title_candidates", "raw_attributes"}
InputDimensions == {<<"s">>, <<"S">>}
InputOptionValues == {<<"a">>, <<"b">>}
MaxOptions == 2     \* options in an OptionGroup handed to add_option_group
InputRawKeys == {"sku"}
InputRawValues == {JStr(<<"a">>), JNum(<<"1">>)}

\* an element with an aria-label and no text
Labelled(label) ==
    <<StartTag("button", [NoAttrs EXCEPT !.aria_label = label]), EndTag("button")>>

OptionLabel(dimension, value) ==
    dimension \o <<" ", "O", "p", "t", "i", "o", "n", ":", " ">> \o value
SelectLabel(dimension, value) ==
    <<"S", "e", "l", "e", "c", "t", " ">> \o dimension \o <<" ">> \o value

\* the page fragments an html document is made of
Fragments ==
    { Labelled(OptionLabel(<<"s">>, <<"a">>)),
      Labelled(OptionLabel(<<"s">>, <<"a">>)) \o Labelled(SelectLabel(<<"s">>, <<"b">>)),
      Labelled(OptionLabel(<<"q", "t", "y">>, <<"a">>))
            \o Labelled(OptionLabel(<<"Q", "T", "Y">>, <<"b">>)),
      Labelled(OptionLabel(<<"c", "o", "l", "o", "r">>, <<"a">>)),
      Labelled(OptionLabel(<<"c", "o", "l", "o", "r">>, <<"a">>))
            \o Labelled(<<" ">> \o OptionLabel(<<"C", "O", "L", "O", "R">>, <<"b">>)),
      <<StartTag("span", [NoAttrs EXCEPT !.class = <<"P", "r", "i", "c", "e">>]),
        Data(<<" ", "1">>), EndTag("span")>>,
      <<StartTag("span", [NoAttrs EXCEPT !.itemprop = S_price, !.content = <<"2">>]),
        EndTag("span"),
        StartTag("link", [NoAttrs EXCEPT !.itemprop = S_availability,
                                         !.content = _SCHEMA_ORG_PREFIX \o <<"I">>])>>,
      <<StartTag("script", NoAttrs), Data(<<" ", "x", "=", "{", "}">>),
        EndTag("script")>>,
      <<StartTag("span", [NoAttrs EXCEPT !.class = S_price]), Data(<<"1">>),
        StartTag("span", NoAttrs), Data(<<"x">>), EndTag("span"),
        Data(<<"2">>), EndTag("span")>>,
      <<StartTag("div", [NoAttrs EXCEPT !.itemprop = S_price]), Data(<<"1">>),
        StartTag("b", NoAttrs), Data(<<"x">>), EndTag("b"), StartTag("br", NoAttrs),
        Data(<<"2", " ">>), EndTag("div")>>,
      <<StartTag("link", [NoAttrs EXCEPT !.itemprop = S_availability,
                                         !.content = S_http_schema_org \o <<"I">>])>>,
      <<StartTag("link", [NoAttrs EXCEPT !.itemprop = S_availability, !.content = <<" ">>]),
        StartTag("link", [NoAttrs EXCEPT !.itemprop = S_availability,
                                         !.content = _SCHEMA_ORG_PREFIX \o <<"O">>]),
        StartTag("link", [NoAttrs EXCEPT !.itemprop = S_availability,
                                         !.content = <<"I">>])>> }

MaxFragments == 1   \* fragments in one html document

RECURSIVE Concat(_)
Concat(ss) == IF ss = <<>> THEN <<>> ELSE Head(ss) \o Concat(Tail(ss))

HtmlDocs == {Concat(fs) : fs \in SeqsUpTo(Fragments, MaxFragments)}

\* what HTMLParser.feed leaves in a fresh _DomSignalParser, per document
DomParsed == [html \in HtmlDocs |-> DomFeed(NewDomParser, html)]
DomTwice == [html \in HtmlDocs |-> DomSeenTwice(html)]

\* the decoded JSON nodes handed to collect_candidates_from_node
Nodes ==
    { JDict(<< <<"color", JStr(<<"a">>)>> >>),
      JDict(<< <<"color", JStr(<<"a">>)>>, <<"colour", JStr(<<"b">>)>> >>),
      JDict(<< <<"colors", JList(<<JStr(<<"a">>), JStr(<<" ", "a">>), JStr(<<"a", "%20">>)>>)>> >>),
      JDict(<< <<"colors", JList(<<JStr(<<"b">>), JStr(<<"a">>), JStr(<<"b">>)>>)>> >>),
      JDict(<< <<"color", JStr(<<" ">>)>> >>),
      JDict(<< <<"@type", JStr(<<"P">>)>>, <<"name", JStr(<<"a">>)>>,
               <<"sku", JStr(<<"b">>)>>, <<"price", JNum(<<"1">>)>> >>),
      JDict(<< <<"product", JDict(<< <<"variants",
                JList(<<JDict(<< <<"color", JDict(<< <<"name", JStr(<<"a">>)>> >>)>> >>),
                        JDict(<< <<"color", JDict(<< <<"name", JStr(<<"c">>)>> >>)>> >>)>>)>> >>)>> >>),
      JList(<<JDict(<< <<"color", JStr(<<"b">>)>> >>), JDict(<< <<"hues", JStr(<<"c">>)>> >>)>>),
      JDict(<< <<"brand", JDict(<< <<"name", JStr(<<"a">>)>>, <<"url", JStr(<<"u">>)>> >>)>> >>),
      JDict(<< <<"brand", JDict(<< <<"@type", JStr(<<"B">>)>>, <<"text", JStr(<<"b">>)>> >>)>> >>),
      JDict(<< <<"variants", JStr(<<"x">>)>>,
               <<"p", JDict(<< <<"variants", JList(<<JNum(<<"1">>)>>)>> >>)>> >>),
      JStr(<<"a">>) }

(***************************************************************************)
(* Calls on the context                                                    *)
(***************************************************************************)
\* ExtractionContext(): every list and the raw attributes empty
NewContext ==
    /\ candidates = [f \in CANDIDATE_FIELDS |-> <<>>]
    /\ option_group_candidates = <<>>
    /\ raw_attributes = <<>>
    /\ raised = "none"
    /\ log = NoCall
    /\ ncalls = 0

\* no scan under way
ScanIdle ==
    /\ scan_text = <<>>
    /\ scan_start = 0
    /\ scan_literal = <<>>
    /\ scan_pc = "idle"
    /\ scan_result = NoBlob

\* no category selection made, nothing cached
TaxIdle ==
    /\ tax_categories = CategoryList(<<>>)
    /\ tax_top_k = 0
    /\ tax_path = "none"
    /\ tax_result = <<>>
    /\ index_cache = <<>>
    /\ index_evicted = {}
    /\ tax_calls = 0

\* no batch handed to a resolver
ResolverIdle ==
    /\ store = <<>>
    /\ products_by_id = <<>>
    /\ store_before = <<>>
    /\ resolved = <<>>
    /\ res_config = DefaultConfig
    /\ res_pc = "idle"

\* no assemble_product call under way
AssemblerIdle ==
    /\ asm_candidates = <<>>
    /\ asm_invocations = <<>>
    /\ asm_attempts = <<>>
    /\ asm_outcome = NoOutcome
    /\ asm_pc = "idle"

\* no from_env call under way, no IDENTITY_* variable set
EnvIdle ==
    /\ env = [name \in EnvNames |-> <<>>]
    /\ env_config = DefaultConfig
    /\ env_raised = "none"
    /\ env_pc = "idle"

\* no script body handed to iter_assigned_json_blobs
IterIdle ==
    /\ script_body = <<>>
    /\ payloads = <<>>
    /\ iter_unclosed = <<>>
    /\ iter_pc = "idle"

LaterIdle == AssemblerIdle /\ EnvIdle /\ IterIdle

Init == NewContext /\ ScanIdle /\ TaxIdle /\ ResolverIdle /\ LaterIdle

\* context.add_candidates(field_name, values)
AddCandidates(field_name, values) ==
    /\ ncalls < MaxCalls
    /\ ncalls' = ncalls + 1
    /\ IF field_name \notin CANDIDATE_FIELDS
       THEN /\ raised' = "ValueError"
            /\ UNCHANGED candidates
       ELSE /\ raised' = "none"
            /\ candidates' = [candidates EXCEPT
                    ![field_name] = merge_unique(candidates[field_name], values)]
    /\ log' = NoCall
    /\ UNCHANGED <<option_group_candidates, raw_attributes, nonCtxVars>>

\* context.merge_unique(field_name, values) called directly on a candidate list
MergeUnique(field_name, values) ==
    /\ ncalls < MaxCalls
    /\ field_name \in CANDIDATE_FIELDS
    /\ ncalls' = ncalls + 1
    /\ raised' = "none"
    /\ candidates' = [candidates EXCEPT
            ![field_name] = merge_unique(candidates[field_name], values)]
    /\ log' = NoCall
    /\ UNCHANGED <<option_group_candidates, raw_attributes, nonCtxVars>>

\* context.add_raw_attribute(key, value)
AddRawAttribute(key, value) ==
    /\ ncalls < MaxCalls
    /\ ncalls' = ncalls + 1
    /\ raised' = "none"
    /\ raw_attributes' = add_raw_attribute(raw_attributes, key, value)
    /\ log' = NoCall
    /\ UNCHANGED <<candidates, option_group_candidates, nonCtxVars>>

\* context.add_option_group(group)
AddOptionGroup(group) ==
    /\ ncalls < MaxCalls
    /\ ncalls' = ncalls + 1
    /\ raised' = "none"
    /\ option_group_candidates' = add_option_group(option_group_candidates, group)
    /\ log' = [NoCall EXCEPT
                !.op = "add_option_group", !.group = group,
                !.fresh = ExistingGroupIndex(option_group_candidates, group.dimension) = 0]
    /\ UNCHANGED <<candidates, raw_attributes, nonCtxVars>>

\* extract_dom_signals(html, context)
ExtractDomSignals(html) ==
    LET parser == DomParsed[html]
    IN /\ ncalls < MaxCalls
       /\ ncalls' = ncalls + 1
       /\ raised' = "none"
       /\ candidates' = [candidates EXCEPT !["price_candidates"] =
                merge_unique(@, CleanedPriceTexts(parser.price_texts))]
       /\ option_group_candidates' =
                _apply_option_groups(option_group_candidates, parser.option_signals)
       /\ raw_attributes' = _apply_availability(raw_attributes, parser.availability)
       /\ log' = [NoCall EXCEPT !.op = "extract_dom_signals", !.twice = DomTwice[html],
                                !.html = html]
       /\ UNCHANGED nonCtxVars

\* collect_candidates_from_node(node, context, MappingRules()); keyOrder is the
\* order in which this process iterates the color_keys frozenset
CollectCandidatesFromNode(node, keyOrder) ==
    LET color_values == ColorValues(node, keyOrder)
        passed == AddPassthrough(raw_attributes, node, structured_passthrough_keys)
    IN /\ ncalls < MaxCalls
       /\ ncalls' = ncalls + 1
       /\ raised' = "none"
       /\ candidates' = AddMappedKeys(candidates, node, json_key_to_field)
       /\ option_group_candidates' =
                IF color_values # <<>>
                THEN _emit_color_option_group(option_group_candidates, color_values)
                ELSE option_group_candidates
       /\ raw_attributes' =
                IF node.t = "dict" THEN AddPrimitives(passed, node.kids) ELSE passed
       /\ log' = [NoCall EXCEPT !.op = "collect_candidates_from_node",
                                !.twice = NodeSeenTwice(node), !.node = node]
       /\ UNCHANGED nonCtxVars

\* extract_structured_signals(html_text): it builds its own empty context, then
\* unpacks the tuple of extract_html_signals into two names.  The unpacking
\* raises for every html_text, so the statements after it never run and the
\* context is never returned.
ExtractStructuredSignals(html) ==
    LET signals == extract_html_signals(html)
    IN /\ ncalls = 0
       /\ Len(signals) # UnpackTargets
       /\ ncalls' = MaxCalls
       /\ raised' = "ValueError"
       /\ log' = [NoCall EXCEPT !.op = "extract_structured_signals"]
       /\ UNCHANGED <<candidates, option_group_candidates, raw_attributes, nonCtxVars>>

Next ==
    \/ \E f \in InputFields, vs \in SeqsUpTo(RawValues, MaxValues) : AddCandidates(f, vs)
    \/ \E f \in InputFields, vs \in SeqsUpTo(RawValues, MaxValues) : MergeUnique(f, vs)
    \/ \E k \in InputRawKeys, v \in InputRawValues : AddRawAttribute(k, v)
    \/ \E d \in InputDimensions, os \in SeqsUpTo(InputOptionValues, MaxOptions) :
            AddOptionGroup(OptionGroup(d, os))
    \/ \E html \in HtmlDocs : ExtractDomSignals(html)
    \/ \E node \in Nodes : \E keyOrder \in ColorKeyOrders(node) :
            CollectCandidatesFromNode(node, keyOrder)
    \/ \E html \in HtmlDocs : ExtractStructuredSignals(html)

Spec == Init /\ [][Next]_vars

\* the two extraction passes only
NextPasses ==
    \/ \E html \in HtmlDocs : ExtractDomSignals(html)
    \/ \E node \in Nodes : \E keyOrder \in ColorKeyOrders(node) :
            CollectCandidatesFromNode(node, keyOrder)

SpecPasses == Init /\ [][NextPasses]_vars

(***************************************************************************)
(* Calls of _extract_balanced_json.  A text is a prefix, then either a     *)
(* well-formed JSON object or array literal or an unclosed one, then a     *)
(* suffix; the scan starts at the literal's first character, which is      *)
(* where _next_json_start puts it.                                         *)
(***************************************************************************)
MaxStrLen == 1      \* characters or escape pairs inside one JSON string
MaxDepth == 2       \* nesting depth of a JSON literal

\* what a JSON string may hold: brackets, an escaped quote, an escaped backslash
StringUnits == {<<"{">>, <<"}">>, <<"]">>, <<"\\", "\"">>, <<"\\", "\\">>}

JsonStrings == {<<"\"">> \o Concat(body) \o <<"\"">> : body \in SeqsUpTo(StringUnits, MaxStrLen)}

JsonScalars == {<<"1">>} \cup JsonStrings

\* the object and array literals built around the values vs
ContainersOf(vs) ==
    {<<"{", "}">>, <<"[", "]">>}
        \cup {<<"[">> \o v \o <<"]">> : v \in vs}
        \cup {<<"[", "1", ",", " ">> \o v \o <<"]">> : v \in vs}
        \cup {<<"{", "\"", "k", "\"", ":">> \o v \o <<"}">> : v \in vs}
        \cup {<<"{">> \o k \o <<":", "1", "}">> : k \in JsonStrings}

RECURSIVE JsonContainers(_)
\* well-formed JSON object and array literals nested at most d deep
JsonContainers(d) ==
    IF d <= 1 THEN ContainersOf(JsonScalars)
    ELSE ContainersOf(JsonScalars \cup JsonContainers(d - 1))

JsonLiterals == JsonContainers(MaxDepth)

ScanPrefixes == {<<>>, <<"x", "=">>, <<"\"", "{">>}
ScanSuffixes == {<<>>, <<";">>, <<"}", "]", "\"">>}

\* a literal cut off before its closing bracket
Unclosed(lit) == SubSeq(lit, 1, Len(lit) - 1)

InitScan ==
    /\ NewContext
    /\ TaxIdle
    /\ ResolverIdle
    /\ LaterIdle
    /\ scan_pc = "ready"
    /\ scan_result = NoBlob
    /\ \E pre \in ScanPrefixes, lit \in JsonLiterals :
        /\ scan_start = Len(pre) + 1
        /\ \/ \E suf \in ScanSuffixes :
                /\ scan_text = pre \o lit \o suf
                /\ scan_literal = lit
           \/ /\ scan_text = pre \o Unclosed(lit)
              /\ scan_literal = <<>>

\* extracted, end_idx = _extract_balanced_json(script_body, json_start)
ExtractBalancedJson ==
    /\ scan_pc = "ready"
    /\ scan_result' = _extract_balanced_json(scan_text, scan_start)
    /\ scan_pc' = "done"
    /\ UNCHANGED <<scan_text, scan_start, scan_literal, ctxVars, taxVars, resVars, laterVars>>

NextScan == ExtractBalancedJson

SpecScan == InitScan /\ [][NextScan]_vars

(***************************************************************************)
(* Calls of select_category_candidates.  The context is built by the       *)
(* caller, as ExtractionContext(title_candidates=[...]).                   *)
(***************************************************************************)
MaxTopK == 3        \* largest top_k handed to select_category_candidates
MaxSelectCalls == 1 \* calls of select_category_candidates in one run

L_Dd == <<"D", "d">>
L_AaBb == <<"A", "a", " ", ">", " ", "B", "b">>
L_AaCc == <<"A", "a", " ", ">", " ", "C", "c">>
L_Aa == <<"A", "a">>

\* the categories lists handed in
Vocabularies ==
    {None} \cup
    { CategoryList(labels) : labels \in
        { <<>>,
          << <<" ">> >>,
          <<L_Dd>>,
          <<L_Dd, L_AaBb>>,
          <<L_AaBb, L_AaCc, L_Dd>>,
          <<L_AaBb, L_AaBb, <<" ">> \o L_Dd \o <<" ">>, L_AaCc>>,
          <<L_AaCc, L_Aa, L_AaBb>>,
          << <<"B">>, <<"A">> >> } }

\* the title candidates of the context: no text, no token, a token of no label,
\* tokens of some labels
QueryTitles ==
    { <<>>,
      << <<"a">> >>,
      << <<"z", "z">> >>,
      << <<"B", "b", " ", "o", "f", " ", "d", "d">> >> }

InitTax ==
    /\ \E titles \in QueryTitles :
            candidates = [f \in CANDIDATE_FIELDS |->
                            IF f = "title_candidates" THEN titles ELSE <<>>]
    /\ option_group_candidates = <<>>
    /\ raw_attributes = <<>>
    /\ raised = "none"
    /\ log = NoCall
    /\ ncalls = 0
    /\ ScanIdle
    /\ TaxIdle
    /\ ResolverIdle
    /\ LaterIdle

\* one call of select_category_candidates(context, categories, top_k)
Select(categories, top_k) ==
    LET category_tuple == _materialize_categories(categories)
        builds == top_k > 0 /\ category_tuple # <<>>
    IN /\ tax_calls' = tax_calls + 1
       /\ tax_categories' = categories
       /\ tax_top_k' = top_k
       /\ \E raw_scores \in ScoresOf(candidates, categories, top_k, index_cache) :
            LET out == select_category_candidates(candidates, categories, top_k,
                                                  raw_scores, index_cache)
            IN /\ tax_path' = out.path
               /\ tax_result' = out.result
       /\ index_cache' = IF builds THEN CacheAfter(index_cache, category_tuple)
                         ELSE index_cache
       /\ index_evicted' = IF builds
                           THEN index_evicted \cup EvictedBy(index_cache, category_tuple)
                           ELSE index_evicted
       /\ UNCHANGED <<ctxVars, scanVars, resVars, laterVars>>

\* select_category_candidates(context, categories, top_k)
SelectCategoryCandidates(categories, top_k) ==
    /\ tax_calls < MaxSelectCalls
    /\ Select(categories, top_k)

NextTax == \E categories \in Vocabularies, top_k \in (-1)..MaxTopK :
                SelectCategoryCandidates(categories, top_k)

SpecTax == InitTax /\ [][NextTax]_vars

(***************************************************************************)
(* Runs of select_category_candidates calls in one process, long enough    *)
(* for the cache of _build_index to fill, drop an entry and build it anew. *)
(***************************************************************************)
MaxCacheCalls == 6  \* calls of select_category_candidates in one process

SelectWithCache(categories, top_k) ==
    /\ tax_calls < MaxCacheCalls
    /\ Select(categories, top_k)

NextCache == \E categories \in Vocabularies : SelectWithCache(categories, MaxTopK)

SpecCache == InitTax /\ [][NextCache]_vars

(***************************************************************************)
(* Calls of assign_canonical_products.  The caller's batch is a mapping    *)
(* from ids to Product objects; object i of the store is the value of its  *)
(* i-th item.                                                              *)
(***************************************************************************)
MaxBatch == 3       \* records in one batch

\* Product(...) with the fields the resolver reads or writes
Product(name, brand, description, source_urls, canonical_product_id) ==
    [name |-> name, brand |-> brand, description |-> description,
     key_features |-> <<>>, source_urls |-> source_urls,
     canonical_product_id |-> canonical_product_id, match_decision |-> <<>>]

S_gtin == <<"1", "2", "3", "4", "5", "6", "7", "8">>

\* a canonical id left on a record by an earlier run
OldCanonicalId == [prefix |-> "cp_", digest |-> Sha256Hex16(<<"o", "l", "d">>)]

ProductPool ==
    { Product(<<"a", "b">>, <<"n">>, <<>>, <<>>, <<>>),
      Product(<<"A", "b", "!">>, <<"n">>, S_gtin, <<>>, <<>>),
      Product(<<"x", "y">>, <<"m">>, <<"n", "o", " ">> \o S_gtin, <<>>, <<OldCanonicalId>>),
      Product(<<"x", "y">>, <<"m">>, <<"x">> \o S_gtin, <<>>, <<>>),
      Product(<<"c", "d">>, <<>>, <<>>, << <<"/">> \o S_gtin >>, <<>>),
      Product(<<"b", "a", "c", "b">>, <<"n">>, <<>>, <<>>, <<>>),
      Product(<<"x", "y">>, <<"a", "b", "c", "d", "e">>, <<>>, << <<"?">> \o S_gtin >>, <<>>),
      Product(<<"x", "y">>, <<"a", "b", "c", "d">>, <<>>, <<>>, <<>>) }

ProductIds == {<<"a">>, <<"b">>, <<"a", "|", "|", "b">>}

\* a resolver with a match threshold that title and brand alone can reach
LowThresholdConfig == [DefaultConfig EXCEPT !.match_threshold = R(1, 5)]

\* a resolver with the largest match threshold
HighThresholdConfig == [DefaultConfig EXCEPT !.match_threshold = R(1, 1)]

\* a resolver that weighs title and brand only and matches on full confidence
TitleOnlyConfig ==
    [DefaultConfig EXCEPT !.match_threshold = R(1, 1), !.upc_weight = R(0, 1),
                          !.title_brand_weight = R(1, 1)]

Configs == {DefaultConfig, LowThresholdConfig, HighThresholdConfig, TitleOnlyConfig}

\* the batches: up to MaxBatch records under distinct ids, in any insertion order
Batches ==
    {batch \in SeqsUpTo(ProductIds \X ProductPool, MaxBatch) :
        \A i, j \in DOMAIN batch : i # j => batch[i][1] # batch[j][1]}

InitRes ==
    /\ NewContext
    /\ ScanIdle
    /\ TaxIdle
    /\ LaterIdle
    /\ \E batch \in Batches :
        /\ store = [i \in DOMAIN batch |-> batch[i][2]]
        /\ products_by_id = [i \in DOMAIN batch |-> <<batch[i][1], i>>]
    /\ store_before = store
    /\ resolved = <<>>
    /\ res_config \in Configs
    /\ res_pc = "ready"

\* IdentityResolver(config).assign_canonical_products(products_by_id)
AssignCanonicalProducts ==
    /\ res_pc = "ready"
    /\ \E out \in {assign_canonical_products(res_config, store, products_by_id)} :
        /\ res_pc' = "done"
        /\ store_before' = store
        /\ store' = out.store
        /\ resolved' = out.products
        /\ UNCHANGED <<products_by_id, res_config, ctxVars, scanVars, taxVars, laterVars>>

NextRes == AssignCanonicalProducts

SpecRes == InitRes /\ [][NextRes]_vars

(***************************************************************************)
(* assemble_product: the call, and the completion of each awaited          *)
(* ai.responses call                                                       *)
(***************************************************************************)
MaxCandidates == 2  \* category candidates handed to assemble_product
MaxChoice == 3      \* largest category_choice in a draft

CandidateCategories == {<<"D", "d">>, <<"Z">>}

\* what one ai.responses call can do
ServiceResponses ==
    [kind : {"draft"}, category_choice : 1..MaxChoice, text : {<<>>}]
        \cup [kind : {"ValidationError"}, category_choice : {0},
              text : {<<"name: Field required">>, <<"price: Input should be a valid number">>}]
        \cup [kind : {"RuntimeError"}, category_choice : {0}, text : {<<"no answer">>}]

InitAsm ==
    /\ NewContext
    /\ ScanIdle
    /\ TaxIdle
    /\ ResolverIdle
    /\ EnvIdle
    /\ IterIdle
    /\ asm_candidates \in SeqsUpTo(CandidateCategories, MaxCandidates)
    /\ asm_invocations = <<>>
    /\ asm_attempts = <<>>
    /\ asm_outcome = NoOutcome
    /\ asm_pc = "ready"

\* assemble_product(context, category_candidates) up to its first await
AssembleProduct ==
    /\ asm_pc = "ready"
    /\ asm_invocations' = <<build_prompt(asm_candidates, <<>>)>>
    /\ asm_pc' = "first"
    /\ UNCHANGED <<asm_candidates, asm_attempts, asm_outcome,
                   ctxVars, scanVars, taxVars, resVars, envVars, iterVars>>

\* the first ai.responses call completes: return, retry or propagate
FirstAttemptEnds(response) ==
    /\ asm_pc = "first"
    /\ \E outcome \in {AttemptOutcome(response, asm_candidates)} :
        /\ asm_attempts' = <<outcome>>
        /\ IF outcome.kind = "ValidationError"
           THEN /\ asm_invocations' = Append(asm_invocations,
                                             build_prompt(asm_candidates, <<outcome.text>>))
                /\ asm_pc' = "retry"
                /\ UNCHANGED asm_outcome
           ELSE /\ asm_outcome' = outcome
                /\ asm_pc' = IF outcome.kind = "product" THEN "returned" ELSE "raised"
                /\ UNCHANGED asm_invocations
    /\ UNCHANGED <<asm_candidates, ctxVars, scanVars, taxVars, resVars, envVars, iterVars>>

\* the second ai.responses call completes: return or propagate
RetryEnds(response) ==
    /\ asm_pc = "retry"
    /\ \E outcome \in {AttemptOutcome(response, asm_candidates)} :
        /\ asm_attempts' = Append(asm_attempts, outcome)
        /\ asm_outcome' = outcome
        /\ asm_pc' = IF outcome.kind = "product" THEN "returned" ELSE "raised"
    /\ UNCHANGED <<asm_candidates, asm_invocations,
                   ctxVars, scanVars, taxVars, resVars, envVars, iterVars>>

NextAsm ==
    \/ AssembleProduct
    \/ \E response \in ServiceResponses : FirstAttemptEnds(response)
    \/ \E response \in ServiceResponses : RetryEnds(response)

SpecAsm == InitAsm /\ [][NextAsm]_vars

(***************************************************************************)
(* IdentityResolverConfig.from_env()                                       *)
(***************************************************************************)
\* texts an IDENTITY_* variable is set to, each with the number float() gives
EnvTexts ==
    { [raw |-> <<"0", ".", "5">>, number |-> <<R(1, 2)>>],
      [raw |-> <<" ", "1", " ">>, number |-> <<R(1, 1)>>],
      [raw |-> <<"1", "e", "-", "1">>, number |-> <<R(1, 10)>>],
      [raw |-> <<"1", "_", "0">>, number |-> <<R(10, 1)>>],
      [raw |-> <<"n", "a", "n">>, number |-> <<[n |-> 0, d |-> 0]>>],
      [raw |-> <<"a", "b", "c">>, number |-> <<>>],
      [raw |-> <<"0", ",", "5">>, number |-> <<>>],
      [raw |-> <<>>, number |-> <<>>] }

EnvSettings == {<<>>} \cup {<<t.raw>> : t \in EnvTexts}

InitEnv ==
    /\ NewContext
    /\ ScanIdle
    /\ TaxIdle
    /\ ResolverIdle
    /\ AssemblerIdle
    /\ IterIdle
    /\ env \in [EnvNames -> EnvSettings]
    /\ env_config = DefaultConfig
    /\ env_raised = "none"
    /\ env_pc = "ready"

\* IdentityResolverConfig.from_env()
FromEnv ==
    /\ env_pc = "ready"
    /\ \E out \in {from_env(env)} :
        /\ env_config' = out.value
        /\ env_raised' = out.raised
    /\ env_pc' = "done"
    /\ UNCHANGED <<env, ctxVars, scanVars, taxVars, resVars, asmVars, iterVars>>

NextEnv == FromEnv

SpecEnv == InitEnv /\ [][NextEnv]_vars

(***************************************************************************)
(* iter_assigned_json_blobs on script bodies made of assignment statements *)
(***************************************************************************)
MaxStatements == 2  \* statements in one script body

\* the left sides: one per pattern, and one that neither pattern matches
AssignmentHeads ==
    { <<"v", "a", "r", " ", "a", "=">>,
      <<"w", "i", "n", "d", "o", "w", ".", "a", " ", "=">>,
      <<"a", "=">> }

\* the right sides: well-formed JSON, brackets that never close, balanced brackets
\* that are not JSON, and no bracket at all
AssignedTexts ==
    { <<"{", "}">>,
      <<"[", "1", "]">>,
      <<"{", "\"", "k", "\"", ":", "[", "1", "]", "}">>,
      <<"{">>,
      <<"{", "\"", "k", "\"", ":", "[", "1">>,
      <<"{", "k", "}">>,
      <<"1">> }

Statements == {head \o text \o <<";">> : head \in AssignmentHeads, text \in AssignedTexts}

ScriptBodies == {Concat(body) : body \in SeqsUpTo(Statements, MaxStatements)}

InitIter ==
    /\ NewContext
    /\ ScanIdle
    /\ TaxIdle
    /\ ResolverIdle
    /\ AssemblerIdle
    /\ EnvIdle
    /\ script_body \in ScriptBodies
    /\ payloads = <<>>
    /\ iter_unclosed = <<>>
    /\ iter_pc = "ready"

\* iter_assigned_json_blobs(script_body)
IterAssignedJsonBlobs ==
    /\ iter_pc = "ready"
    /\ \E out \in {iter_assigned_json_blobs(script_body)} :
        /\ payloads' = out.payloads
        /\ iter_unclosed' = out.unclosed
    /\ iter_pc' = "done"
    /\ UNCHANGED <<script_body, ctxVars, scanVars, taxVars, resVars, asmVars, envVars>>

NextIter == IterAssignedJsonBlobs

SpecIter == InitIter /\ [][NextIter]_vars

(***************************************************************************)
(* C1: after any sequence of add_candidates / merge_unique calls on a      *)
(* context that started empty, every candidate list has no duplicate       *)
(* string (case-sensitively), no empty or whitespace-only string, and each *)
(* call leaves the previous list as a prefix of the new one (append-only,  *)
(* first-seen order kept).                                                 *)
(***************************************************************************)
IsBlank(s) == \A i \in DOMAIN s : s[i] \in Whitespace

CandidateListsClean ==
    \A f \in CANDIDATE_FIELDS :
        /\ NoDuplicates(candidates[f])
        /\ \A i \in DOMAIN candidates[f] : ~IsBlank(candidates[f][i])

C1_CandidateListsCleanAppendOnly ==
    /\ []CandidateListsClean
    /\ [][\A f \in CANDIDATE_FIELDS : IsPrefix(candidates[f], candidates'[f])]_vars

\* a DOM pass and direct calls have layered values into the lists, "A" after "a"
C1_Witness ==
    /\ ncalls >= 2
    /\ log = NoCall
    /\ candidates["title_candidates"] = << <<"a">>, <<"A">> >>
    /\ candidates["price_candidates"] = << <<"1">> >>

(***************************************************************************)
(* C2: for any two OptionGroups G1 and G2, whatever their option lists,    *)
(* whose dimensions are equal ignoring case, add_option_group(G1) followed *)
(* by add_option_group(G2) on a context with no group of that dimension    *)
(* leaves exactly one group of that dimension, whose options are the       *)
(* distinct values of G1 and G2, each exactly once, in first-seen order.   *)
(***************************************************************************)
RECURSIVE DistinctInOrder(_)
DistinctInOrder(s) ==
    IF s = <<>> THEN <<>>
    ELSE <<Head(s)>> \o DistinctInOrder(SelectSeq(Tail(s), LAMBDA x : x # Head(s)))

GroupsOfDimension(groups, dimension) ==
    {i \in 1..Len(groups) : Lower(groups[i].dimension) = Lower(dimension)}

C2_MergedGroupHasEachValueOnce ==
    [][(/\ log.op = "add_option_group"
        /\ log.fresh
        /\ log'.op = "add_option_group"
        /\ Lower(log'.group.dimension) = Lower(log.group.dimension))
       => LET G1 == log.group
              G2 == log'.group
              same == GroupsOfDimension(option_group_candidates', G1.dimension)
          IN /\ Cardinality(same) = 1
             /\ \A i \in same :
                   option_group_candidates'[i].options
                       = DistinctInOrder(G1.options \o G2.options)]_vars

(***************************************************************************)
(* C3: starting from an empty context, after any sequence of               *)
(* extract_dom_signals and collect_candidates_from_node calls every        *)
(* OptionGroup in option_group_candidates has at least 2 distinct option   *)
(* values, and a pass that saw fewer than 2 distinct values for a          *)
(* dimension (Color included) leaves the groups of that dimension as they  *)
(* were.                                                                   *)
(***************************************************************************)
EveryGroupHasTwoValues ==
    \A i \in 1..Len(option_group_candidates) :
        Cardinality(Range(option_group_candidates[i].options)) >= 2

PassAddsOnlySeenTwice ==
    log'.op \in {"extract_dom_signals", "collect_candidates_from_node"} =>
        \A d \in AllDimensions(option_group_candidates')
                    \cup AllDimensions(option_group_candidates) :
            (\A e \in log'.twice : Lower(e) # Lower(d))
            => GroupsFor(option_group_candidates', d) = GroupsFor(option_group_candidates, d)

C3_GroupsHaveTwoDistinctValues ==
    /\ []EveryGroupHasTwoValues
    /\ [][PassAddsOnlySeenTwice]_vars

\* a DOM pass and a mapping pass have both contributed to the Color group
C3_Witness ==
    /\ ncalls = 2
    /\ log.op = "extract_dom_signals"
    /\ log.twice = {S_Color}
    /\ \E i \in 1..Len(option_group_candidates) :
          /\ option_group_candidates[i].dimension = S_Color
          /\ Len(option_group_candidates[i].options) = 3

(***************************************************************************)
(* C5: for any text and start position at which a well-formed JSON object  *)
(* or array literal begins, the balanced-bracket scan returns exactly that *)
(* literal and the position immediately after it; quotes, escaped quotes   *)
(* and brackets inside string values do not end the scan early.            *)
(***************************************************************************)
C5_ScanReturnsLiteralAndNextPosition ==
    (scan_pc = "done" /\ scan_literal # <<>>) =>
        /\ scan_result.found
        /\ scan_result.blob = scan_literal
        /\ scan_result.end = scan_start + Len(scan_literal)

\* a nested literal whose string holds an escaped quote and is followed by more
\* brackets and a quote has been scanned
C5_Witness ==
    /\ scan_pc = "done"
    /\ scan_literal = <<"{", "\"", "k", "\"", ":", "[", "\"", "\\", "\"", "\"", "]", "}">>
    /\ scan_text = <<"x", "=">> \o scan_literal \o <<"}", "]", "\"">>
    /\ scan_result.blob = scan_literal
    /\ scan_result.end = 15

(***************************************************************************)
(* C4: extract_structured_signals never raises, whatever html_text it is   *)
(* given, and returns a context; for the empty string every candidate list *)
(* of that context is empty.                                               *)
(***************************************************************************)
C4_StructuredExtractionNeverRaises ==
    log.op = "extract_structured_signals" => raised = "none"

(***************************************************************************)
(* What a call of select_category_candidates was given.                    *)
(***************************************************************************)
GivenLabels ==
    IF tax_categories = None THEN VALID_CATEGORIES ELSE Range(tax_categories.labels)

\* the labels with their surrounding whitespace removed, blank ones left out
StrippedLabels == {Strip(v) : v \in GivenLabels} \ {<<>>}

\* p is the top-level segment of label: what stands before its first " > "
IsTopSegmentOf(p, label) ==
    /\ ~Contains(p, S_separator)
    /\ \/ p = label
       \/ /\ Len(label) >= Len(p) + 3
          /\ SubSeq(label, 1, Len(p) + 3) = p \o S_separator

TopSegment(label) ==
    SubSeq(label, 1, CHOOSE n \in 0..Len(label) : IsTopSegmentOf(SubSeq(label, 1, n), label))

TopSegments == {TopSegment(label) : label \in StrippedLabels}

\* the walk of the fallback over the labels in a given order: one entry per
\* top-level segment, then the full labels not used yet, cut at k entries
Walk(order, k) ==
    Take(DistinctInOrder([i \in DOMAIN order |-> TopSegment(order[i])] \o order), k)

\* the labels in the order the caller listed them
GivenOrder ==
    SelectSeq([i \in DOMAIN tax_categories.labels |-> Strip(tax_categories.labels[i])],
              LAMBDA v : v # <<>>)

\* the stripped labels, each once, in ascending order
AscendingOrder ==
    CHOOSE order \in [1..Cardinality(StrippedLabels) -> StrippedLabels] :
        \A i, j \in DOMAIN order : i < j => StrLess(order[i], order[j])

(***************************************************************************)
(* C6: for every context, vocabulary and top_k, select_category_candidates *)
(* returns at most top_k strings (none when top_k <= 0) and never the same *)
(* string twice, on the ranked path and on the fallback path, also when    *)
(* the vocabulary holds duplicate labels.                                  *)
(***************************************************************************)
C6_AtMostTopKUniqueStrings ==
    tax_calls > 0 =>
        /\ Len(tax_result) <= (IF tax_top_k > 0 THEN tax_top_k ELSE 0)
        /\ NoDuplicates(tax_result)

\* a ranked result of two labels from a vocabulary that lists a label twice
C6_Witness ==
    /\ tax_path = "ranked"
    /\ tax_categories = CategoryList(<<L_AaBb, L_AaBb, <<" ">> \o L_Dd \o <<" ">>, L_AaCc>>)
    /\ tax_top_k = 2
    /\ tax_result = <<L_AaBb, L_Dd>>

(***************************************************************************)
(* C7 as stated: every string returned by select_category_candidates is an *)
(* element of the vocabulary it was given, on the ranked path and on the   *)
(* fallback path.                                                          *)
(***************************************************************************)
C7_ResultsAreVocabularyElements ==
    tax_calls > 0 => \A i \in DOMAIN tax_result : tax_result[i] \in GivenLabels

(***************************************************************************)
(* C7 amended: every string returned on the ranked path is a vocabulary    *)
(* label with its surrounding whitespace removed; every string returned on *)
(* the fallback path is such a label or the top-level segment of one.      *)
(***************************************************************************)
C7_ResultsAreLabelsOrTopSegments ==
    /\ tax_path = "ranked" =>
            \A i \in DOMAIN tax_result : tax_result[i] \in StrippedLabels
    /\ tax_path = "fallback" =>
            \A i \in DOMAIN tax_result : tax_result[i] \in StrippedLabels \cup TopSegments

\* the fallback has returned a top-level segment that is no label of the vocabulary
C7_Witness ==
    /\ tax_path = "fallback"
    /\ tax_categories = CategoryList(<<L_AaBb, L_AaCc, L_Dd>>)
    /\ tax_result = <<L_Aa>>
    /\ L_Aa \notin GivenLabels

C9_FallbackReturnsTopK ==
    (tax_path = "fallback" /\ StrippedLabels # {} /\ tax_top_k > 0) =>
        Len(tax_result) = tax_top_k

(***************************************************************************)
(* C9 amended: whenever the vocabulary is non-empty and top_k > 0, the     *)
(* fallback path returns top_k results, or, when the vocabulary has fewer  *)
(* than top_k distinct strings among its top-level segments and labels,    *)
(* all of those.                                                           *)
(***************************************************************************)
C9_FallbackReturnsTopKOrAll ==
    (tax_path = "fallback" /\ StrippedLabels # {} /\ tax_top_k > 0) =>
        Len(tax_result) = Min(tax_top_k, Cardinality(StrippedLabels \cup TopSegments))

\* a fallback that was asked for three results and had one string to give
C9_Witness ==
    /\ tax_path = "fallback"
    /\ tax_categories = CategoryList(<<L_Dd>>)
    /\ tax_top_k = 3
    /\ tax_result = <<L_Dd>>

(***************************************************************************)
(* C10: assign_canonical_products never changes the records passed in by   *)
(* the caller (canonical_product_id, match_decision and every other field  *)
(* are after the call what they were before), it works on copies that are  *)
(* objects of their own, and the mapping it returns has the key set of the *)
(* input mapping.                                                          *)
(***************************************************************************)
C10_InputRecordsUnchanged ==
    res_pc = "done" =>
        /\ \A i \in DOMAIN products_by_id :
                store[products_by_id[i][2]] = store_before[products_by_id[i][2]]
        /\ Keys(resolved) = Keys(products_by_id)
        /\ {resolved[i][2] : i \in DOMAIN resolved}
                \cap {products_by_id[i][2] : i \in DOMAIN products_by_id} = {}

\* two records that share a code were resolved: the copies carry a new canonical
\* id and a decision, the caller's records still carry what they came with
C10_Witness ==
    /\ res_pc = "done"
    /\ Len(products_by_id) = 2
    /\ store[products_by_id[1][2]].canonical_product_id = <<OldCanonicalId>>
    /\ store[products_by_id[2][2]].canonical_product_id = <<>>
    /\ \A i \in DOMAIN resolved :
        /\ store[resolved[i][2]].canonical_product_id
                = <<_canonical_id_for_component(Keys(products_by_id))>>
        /\ store[resolved[i][2]].match_decision # <<>>
        /\ store[products_by_id[i][2]].match_decision = <<>>

(***************************************************************************)
(* The resolver claims speak of the records the caller passed in, the      *)
(* records returned, the result of a pair and the clusters of the match    *)
(* graph.                                                                  *)
(***************************************************************************)
\* the record passed in under an id and the record returned under it
InputOf(id) == store_before[RefOf(products_by_id, id)]
OutputOf(id) == store[RefOf(resolved, id)]
BatchIds == Keys(products_by_id)

\* the result of the pair of two different ids: the record of the smaller id is left
PairResult(a, b) ==
    IF StrLess(a, b) THEN _evaluate_pair(res_config, InputOf(a), InputOf(b))
    ELSE _evaluate_pair(res_config, InputOf(b), InputOf(a))

\* the edges of the match graph
MatchedEdges == {e \in BatchIds \X BatchIds : e[1] # e[2] /\ PairResult(e[1], e[2]).matched}

\* the ids joined to an id by a path of matched pairs
ClusterOf(id, edges) == Reachable({id}, BatchIds, edges)

\* the codes two records share
SharedCodes(a, b) == _extract_gtin_codes(InputOf(a)) \cap _extract_gtin_codes(InputOf(b))

IsGtinEvidence(e) == e.signal = "upc_gtin_exact_match"
IsTitleBrandEvidence(e) == e.signal = "title_brand_similarity"

(***************************************************************************)
(* C11: for every non-empty batch, a batch of one record included, every   *)
(* returned record has a match_decision and a canonical_product_id that is *)
(* the canonical id computed in this run for its cluster (a record with no *)
(* matched pair is a cluster of its own); it is never null and never the   *)
(* value the input record came with.                                       *)
(***************************************************************************)
C11_EveryRecordGetsItsClusterId ==
    res_pc = "done" =>
        \A edges \in {MatchedEdges} : \A id \in Keys(resolved) :
            /\ OutputOf(id).match_decision # <<>>
            /\ OutputOf(id).canonical_product_id
                    = <<_canonical_id_for_component(ClusterOf(id, edges))>>

(***************************************************************************)
(* C12: the output does not depend on the insertion order of the input     *)
(* mapping: the same records listed in any other order get, id by id, the  *)
(* same canonical_product_id and the same match_decision (candidate id,    *)
(* matched flag, confidence).                                              *)
(***************************************************************************)
Reordered(items, perm) == [i \in DOMAIN items |-> items[perm[i]]]

C12_OutputIndependentOfInputOrder ==
    res_pc = "done" =>
        \A perm \in Permutations(DOMAIN products_by_id) :
            \A out \in {assign_canonical_products(res_config, store_before,
                                                  Reordered(products_by_id, perm))} :
                \A id \in BatchIds :
                    LET other == out.store[RefOf(out.products, id)]
                        mine == OutputOf(id)
                    IN /\ other.canonical_product_id = mine.canonical_product_id
                       /\ other.match_decision[1].candidate_product_id
                            = mine.match_decision[1].candidate_product_id
                       /\ other.match_decision[1].matched = mine.match_decision[1].matched
                       /\ other.match_decision[1].confidence
                            = mine.match_decision[1].confidence

\* three records were resolved that were listed with the largest id first, two of
\* them with titles whose similarity depends on which one is the left one
C12_Witness ==
    /\ res_pc = "done"
    /\ Len(products_by_id) = 3
    /\ \A i \in 2..3 : StrLess(products_by_id[i][1], products_by_id[1][1])
    /\ \E a, b \in BatchIds :
        /\ a # b
        /\ _title_brand_similarity(InputOf(a), InputOf(b))
                # _title_brand_similarity(InputOf(b), InputOf(a))
    /\ \A id \in BatchIds : OutputOf(id).match_decision # <<>>

(***************************************************************************)
(* C13: with the default weights and any match threshold, two records of a *)
(* batch that share an extracted code get the same canonical_product_id,   *)
(* and the match_decision of each has matched = true, confidence >= 0.95   *)
(* and a GTIN evidence entry with score 1.0 and matched = true, whichever  *)
(* of the two is listed first.                                             *)
(***************************************************************************)
C13_SharedCodeMatches ==
    (/\ res_pc = "done"
     /\ res_config.upc_weight = DefaultConfig.upc_weight
     /\ res_config.title_brand_weight = DefaultConfig.title_brand_weight) =>
        \A a, b \in BatchIds :
            (a # b /\ SharedCodes(a, b) # {}) =>
                /\ OutputOf(a).canonical_product_id # <<>>
                /\ OutputOf(a).canonical_product_id = OutputOf(b).canonical_product_id
                /\ LET decision == OutputOf(a).match_decision[1]
                   IN /\ decision.matched
                      /\ ~RLess(decision.confidence, R(95, 100))
                      /\ \E i \in DOMAIN decision.evidence :
                            /\ IsGtinEvidence(decision.evidence[i])
                            /\ decision.evidence[i].score = R(1, 1)
                            /\ decision.evidence[i].matched

\* two records that share a code and whose titles and brands differ were resolved,
\* the one with the larger id listed first: the weighted value alone is below 0.95
C13_Witness ==
    /\ res_pc = "done"
    /\ Len(products_by_id) >= 2
    /\ StrLess(products_by_id[2][1], products_by_id[1][1])
    /\ SharedCodes(products_by_id[1][1], products_by_id[2][1]) # {}
    /\ RLess(_title_brand_similarity(InputOf(products_by_id[2][1]),
                                     InputOf(products_by_id[1][1])), R(1, 2))
    /\ OutputOf(products_by_id[1][1]).match_decision[1].confidence = R(95, 100)

(***************************************************************************)
(* C14: an empty batch gives an empty mapping, and a batch of one record   *)
(* gives a record whose match_decision has no candidate id, matched =      *)
(* false, confidence 0.0 and exactly two evidence entries, the GTIN one    *)
(* and the title/brand one, each with score 0.0, matched = false and the   *)
(* detail no_other_products.                                               *)
(***************************************************************************)
IsNoPeersEntry(e) ==
    /\ e.score = R(0, 1)
    /\ ~e.matched
    /\ e.details.reason = <<"no_other_products">>

C14_EmptyAndSingleBatches ==
    res_pc = "done" =>
        /\ products_by_id = <<>> => resolved = <<>>
        /\ Len(products_by_id) = 1 =>
            /\ Len(resolved) = 1
            /\ OutputOf(resolved[1][1]).match_decision # <<>>
            /\ LET decision == OutputOf(resolved[1][1]).match_decision[1]
               IN /\ decision.candidate_product_id = <<>>
                  /\ ~decision.matched
                  /\ decision.confidence = R(0, 1)
                  /\ Len(decision.evidence) = 2
                  /\ \E i, j \in 1..2 :
                        /\ IsGtinEvidence(decision.evidence[i])
                        /\ IsTitleBrandEvidence(decision.evidence[j])
                  /\ \A i \in 1..2 : IsNoPeersEntry(decision.evidence[i])

\* a batch of one record that carries a code was resolved
C14_Witness ==
    /\ res_pc = "done"
    /\ Len(products_by_id) = 1
    /\ _extract_gtin_codes(InputOf(products_by_id[1][1])) # {}
    /\ OutputOf(resolved[1][1]).match_decision # <<>>

(***************************************************************************)
(* C15: in a batch of two or more records, the match_decision of a record  *)
(* is the pair result against the other id with the highest confidence     *)
(* against it, the lexically smallest one among several with that          *)
(* confidence, whatever the clusters are; the candidate id is never the    *)
(* record's own id and never null.                                         *)
(***************************************************************************)
C15_DecisionIsBestOtherId ==
    (res_pc = "done" /\ Len(products_by_id) >= 2) =>
        \A id \in BatchIds :
            LET decision == OutputOf(id).match_decision[1]
                others == BatchIds \ {id}
            IN /\ decision.candidate_product_id # <<>>
               /\ decision.candidate_product_id[1] \in others
               /\ \A chosen \in {PairResult(id, decision.candidate_product_id[1])} :
                    /\ decision.matched = chosen.matched
                    /\ decision.confidence = chosen.confidence
                    /\ decision.evidence = chosen.evidence
                    /\ \A other \in others :
                        /\ ~RLess(chosen.confidence, PairResult(id, other).confidence)
                        /\ REq(chosen.confidence, PairResult(id, other).confidence)
                            => ~StrLess(other, decision.candidate_product_id[1])

\* three records were resolved; the first one has the same confidence against
\* both others, matches neither, and its candidate is the smaller of the two ids
C15_Witness ==
    /\ res_pc = "done"
    /\ Len(products_by_id) = 3
    /\ LET id == products_by_id[1][1]
           o1 == products_by_id[2][1]
           o2 == products_by_id[3][1]
       IN /\ StrLess(o2, o1)
          /\ REq(PairResult(id, o1).confidence, PairResult(id, o2).confidence)
          /\ RLess(R(0, 1), PairResult(id, o1).confidence)
          /\ ~PairResult(id, o1).matched
          /\ PairResult(o1, o2).matched
          /\ OutputOf(id).match_decision[1].candidate_product_id = <<o2>>

(***************************************************************************)
(* C16: clustering is transitive: two records joined by a path of matched  *)
(* pairs get the same canonical_product_id, also when the pair of the two  *)
(* is itself not matched.                                                  *)
(***************************************************************************)
C16_ClusteringIsTransitive ==
    res_pc = "done" =>
        \A edges \in {MatchedEdges} : \A a \in BatchIds : \A b \in ClusterOf(a, edges) :
            OutputOf(a).canonical_product_id = OutputOf(b).canonical_product_id

\* A-B and B-C are matched, A-C is not, and the three carry one canonical id
C16_Witness ==
    /\ res_pc = "done"
    /\ Len(products_by_id) = 3
    /\ \E a, b, c \in BatchIds :
        /\ a # b /\ b # c /\ a # c
        /\ PairResult(a, b).matched
        /\ PairResult(b, c).matched
        /\ ~PairResult(a, c).matched
        /\ OutputOf(a).canonical_product_id # <<>>
        /\ OutputOf(a).canonical_product_id = OutputOf(c).canonical_product_id

(***************************************************************************)
(* C17: for any record ids, ids that contain "||" included, two records in *)
(* different connected components of the match graph never get the same    *)
(* canonical_product_id (SHA-256 taken to be collision-free on distinct    *)
(* keys).                                                                  *)
(***************************************************************************)
C17_DifferentClustersDifferentIds ==
    res_pc = "done" =>
        \A edges \in {MatchedEdges} : \A a, b \in BatchIds :
            b \notin ClusterOf(a, edges) =>
                OutputOf(a).canonical_product_id # OutputOf(b).canonical_product_id

(***************************************************************************)
(* C18: assemble_product invokes the structured-generation service at most *)
(* twice per call; the second invocation happens only after the first      *)
(* attempt failed with a schema-validation error, its prompt contains the  *)
(* text of that error, and a failure of the second attempt is propagated   *)
(* to the caller with no third invocation.                                 *)
(***************************************************************************)
UserContent(messages) == messages[2].content

C18_RetriesAtMostOnce ==
    /\ Len(asm_invocations) <= 2
    /\ Len(asm_invocations) = 2 =>
        /\ asm_attempts # <<>>
        /\ asm_attempts[1].kind = "ValidationError"
        /\ \E i \in DOMAIN UserContent(asm_invocations[2]) :
                UserContent(asm_invocations[2])[i].text = asm_attempts[1].text
    /\ (Len(asm_attempts) = 2 /\ asm_attempts[2].kind # "product") =>
        /\ asm_pc = "raised"
        /\ asm_outcome = asm_attempts[2]

\* the service failed twice with a validation error: two invocations were made
\* and the second error reached the caller
C18_Witness ==
    /\ asm_pc = "raised"
    /\ Len(asm_invocations) = 2
    /\ asm_attempts[1].kind = "ValidationError"
    /\ asm_attempts[2].kind = "ValidationError"
    /\ asm_attempts[2].text # asm_attempts[1].text
    /\ asm_outcome = asm_attempts[2]

(***************************************************************************)
(* C19: IdentityResolverConfig.from_env never fails: each of the four      *)
(* settings takes the numeric value of its environment variable when that  *)
(* value parses as a number, and its default (0.72, 0.62, 0.75, 0.25) when *)
(* the variable is unset or does not parse; the value of one variable      *)
(* never affects another setting.                                          *)
(***************************************************************************)
\* the number a text parses as, if any, as listed with the text
NumberOf(raw) == (CHOOSE t \in EnvTexts : t.raw = raw).number

SettingFrom(name, default) ==
    IF env[name] = <<>> THEN default
    ELSE IF NumberOf(env[name][1]) = <<>> THEN default
    ELSE NumberOf(env[name][1])[1]

C19_FromEnvFallsBackToDefaults ==
    env_pc = "done" =>
        /\ env_raised = "none"
        /\ env_config.match_threshold = SettingFrom("IDENTITY_MATCH_THRESHOLD", R(72, 100))
        /\ env_config.title_brand_min_similarity
                = SettingFrom("IDENTITY_TITLE_BRAND_MIN_SIMILARITY", R(62, 100))
        /\ env_config.upc_weight = SettingFrom("IDENTITY_UPC_WEIGHT", R(75, 100))
        /\ env_config.title_brand_weight
                = SettingFrom("IDENTITY_TITLE_BRAND_WEIGHT", R(25, 100))

\* one variable unset, one set to a text that is no number, one to a number with an
\* exponent and one to the empty text
C19_Witness ==
    /\ env_pc = "done"
    /\ env["IDENTITY_MATCH_THRESHOLD"] = <<>>
    /\ env["IDENTITY_TITLE_BRAND_MIN_SIMILARITY"] = << <<"a", "b", "c">> >>
    /\ env["IDENTITY_UPC_WEIGHT"] = << <<"1", "e", "-", "1">> >>
    /\ env["IDENTITY_TITLE_BRAND_WEIGHT"] = << <<>> >>
    /\ env_config = [DefaultConfig EXCEPT !.upc_weight = R(1, 10)]

(***************************************************************************)
(* C20: when the bracket scan started for an assignment match never        *)
(* returns to depth zero, iter_assigned_json_blobs emits no blob for that  *)
(* match and resumes scanning after that match, so that a well-formed JSON *)
(* assignment of the same pattern that begins later in the same script     *)
(* body is still extracted.                                                *)
(***************************************************************************)
\* the payload of the first assignment of the pattern found from position idx on,
\* if that assignment has a well-formed JSON value
NextAssigned(pattern, idx) ==
    LET end == SearchEnd(pattern, script_body, idx)
        json_start == _next_json_start(script_body, end)
        scan == _extract_balanced_json(script_body, json_start)
    IN IF end = 0 \/ json_start = 0 THEN <<>>
       ELSE IF ~scan.found THEN <<>>
       ELSE _safe_json_loads(scan.blob)

C20_ScanResumesAfterUnclosedMatch ==
    iter_pc = "done" =>
        \A i \in DOMAIN iter_unclosed :
            \A payload \in Range(NextAssigned(iter_unclosed[i][1], iter_unclosed[i][2])) :
                payload \in Range(payloads)

(***************************************************************************)
(* Nested objects under mapped keys                                        *)
(***************************************************************************)
\* the dict values that a node holds under key, at any depth
RECURSIVE ObjectsUnder(_, _)
ObjectsUnder(node, key) ==
    IF node.t \notin {"dict", "list"} THEN {}
    ELSE UNION {(IF node.t = "dict" /\ node.kids[i][1] = key /\ node.kids[i][2].t = "dict"
                 THEN {node.kids[i][2]} ELSE {})
                    \cup ObjectsUnder(node.kids[i][2], key) : i \in 1..Len(node.kids)}

NestedKeys == <<"name", "value", "url", "text">>

\* the value of the first of name, value, url, text present with a string value
FirstPresent(object) ==
    LET present == {i \in 1..Len(NestedKeys) : DictGet(object, NestedKeys[i]).t = "str"}
    IN IF present = {} THEN <<>>
       ELSE <<DictGet(object, NestedKeys[CHOOSE i \in present :
                                            \A j \in present : i <= j]).s>>

\* C21: after collect_candidates_from_node, every nested object found under a
\* mapped key of the node contributed exactly one string, the value of the
\* first of name, value, url, text that it holds as a string; the other three
\* keys contributed nothing for that object.
C21_NestedObjectContributesFirstKeyOnly ==
    log.op = "collect_candidates_from_node" =>
        \A i \in 1..Len(json_key_to_field) :
            \A object \in ObjectsUnder(log.node, json_key_to_field[i][1]) :
                _flatten_scalar_strings(object) = FirstPresent(object)

(***************************************************************************)
(* Structured passthrough                                                  *)
(***************************************************************************)
\* C22: after collect_candidates_from_node on a node that holds a list or dict
\* below the size cap under a structured passthrough key k, raw_attributes[k]
\* is the JSON serialization of the first such value in traversal order,
\* whatever else the node holds.
C22_PassthroughIsFirstStructuredValue ==
    log.op = "collect_candidates_from_node" =>
        \A k \in structured_passthrough_keys :
            LET first == _find_structured_value(log.node, k)
            IN first.found =>
                  /\ k \in DOMAIN raw_attributes
                  /\ raw_attributes[k] = JStr(Dumps(first.value))

(***************************************************************************)
(* Price text of an element                                                *)
(***************************************************************************)
\* the call's html and the start tags in it
DomHtml == log.html
StartTags == {i \in 1..Len(DomHtml) : DomHtml[i].ev = "start"}

\* the start tag begins price buffering
StartsPriceBuffering(e) ==
    \/ Lower(e.attrs.itemprop) = S_price /\ e.attrs.content = <<>>
    \/ /\ Lower(e.attrs.itemprop) # S_price
       /\ e.attrs.data_price = <<>>
       /\ Contains(Lower(e.attrs.class), S_price)

\* position of the close tag that matches the start tag of name tag, scanning
\* from j with depth elements of that name open inside it; 0 if there is none
RECURSIVE MatchingClose(_, _, _)
MatchingClose(tag, j, depth) ==
    IF j > Len(DomHtml) THEN 0
    ELSE IF DomHtml[j].ev = "start" /\ DomHtml[j].tag = tag
    THEN MatchingClose(tag, j + 1, depth + 1)
    ELSE IF DomHtml[j].ev = "end" /\ DomHtml[j].tag = tag
    THEN IF depth = 0 THEN j ELSE MatchingClose(tag, j + 1, depth - 1)
    ELSE MatchingClose(tag, j + 1, depth)

\* all text between positions i and j
RECURSIVE TextBetween(_, _)
TextBetween(i, j) ==
    IF i + 1 >= j THEN <<>>
    ELSE (IF DomHtml[i + 1].ev = "data" THEN DomHtml[i + 1].data ELSE <<>>)
            \o TextBetween(i + 1, j)

\* C23: after extract_dom_signals, for every element that starts price
\* buffering and has a matching close tag, the trimmed text between its start
\* tag and its own close tag, text after nested children included, is a price
\* candidate when it is non-empty.
C23_PriceTextRunsToOwnCloseTag ==
    log.op = "extract_dom_signals" =>
        \A i \in StartTags :
            LET close == MatchingClose(DomHtml[i].tag, i + 1, 0)
            IN StartsPriceBuffering(DomHtml[i]) /\ close # 0 =>
                  LET text == Strip(TextBetween(i, close))
                  IN text # <<>> => text \in Range(candidates["price_candidates"])

(***************************************************************************)
(* Availability                                                            *)
(***************************************************************************)
\* the start tags with itemprop="availability" and a non-empty content
AvailabilityTags ==
    {i \in StartTags : /\ Lower(DomHtml[i].attrs.itemprop) = S_availability
                       /\ Strip(DomHtml[i].attrs.content) # <<>>}

\* the trailing token of a schema.org URL, any other content as it is
SchemaOrgToken(content) ==
    IF IsPrefix(_SCHEMA_ORG_PREFIX, content) THEN RemovePrefix(content, _SCHEMA_ORG_PREFIX)
    ELSE IF IsPrefix(S_http_schema_org, content) THEN RemovePrefix(content, S_http_schema_org)
    ELSE content

\* C24: after extract_dom_signals, the availability raw attribute comes from
\* the first element in document order with itemprop="availability" and a
\* non-empty content, and of a schema.org URL, http or https, only the
\* trailing token is stored.
C24_AvailabilityIsFirstToken ==
    log.op = "extract_dom_signals" /\ AvailabilityTags # {} =>
        LET first == CHOOSE i \in AvailabilityTags : \A j \in AvailabilityTags : i <= j
        IN /\ "dom_availability" \in DOMAIN raw_attributes
           /\ raw_attributes["dom_availability"] =
                    SchemaOrgToken(Strip(DomHtml[first].attrs.content))

(***************************************************************************)
(* Fallback and vocabulary overlap                                         *)
(***************************************************************************)
\* the tokens of the query and of the labels of the last call
QueryTokens == Range(_build_query_terms(candidates))
LabelTokens == UNION {Range(_tokenize(label)) : label \in StrippedLabels}

\* C25: for a non-empty vocabulary and top_k > 0, select_category_candidates
\* takes the fallback path exactly when the query has no token or no query
\* token occurs in any label; when a query token occurs in some label the
\* ranked result is returned.
C25_FallbackExactlyWithoutOverlap ==
    (tax_calls > 0 /\ StrippedLabels # {} /\ tax_top_k > 0) =>
        /\ tax_path \in {"fallback", "ranked"}
        /\ tax_path = "fallback" <=> QueryTokens \cap LabelTokens = {}

(***************************************************************************)
(* The index cache                                                         *)
(***************************************************************************)
\* the last call returned what it returns when every index is built anew
ReturnsAsUncached ==
    \E raw_scores \in ScoresOf(candidates, tax_categories, tax_top_k, <<>>) :
        LET out == select_category_candidates(candidates, tax_categories, tax_top_k,
                                              raw_scores, <<>>)
        IN tax_path = out.path /\ tax_result = out.result

SimilarityOf(a, b) ==
    IF StrLess(a, b) THEN _title_brand_similarity(InputOf(a), InputOf(b))
    ELSE _title_brand_similarity(InputOf(b), InputOf(a))

\* C27: under the default configuration a pair whose title+brand similarity is
\* at least the match threshold is matched, also without a shared GTIN, and
\* its two records receive the same canonical_product_id.
C27_SimilarPairsMatchByDefault ==
    (res_pc = "done" /\ res_config = DefaultConfig) =>
        \A a, b \in BatchIds :
            (a # b /\ ~RLess(SimilarityOf(a, b), res_config.match_threshold)) =>
                /\ PairResult(a, b).matched
                /\ OutputOf(a).canonical_product_id = OutputOf(b).canonical_product_id

(***************************************************************************)
(* Digit runs                                                              *)
(***************************************************************************)
RECURSIVE DigitRuns(_, _)
\* the maximal runs of digits of a text; run is the run being read
DigitRuns(text, run) ==
    IF text = <<>> THEN (IF run = <<>> THEN {} ELSE {run})
    ELSE IF Head(text) \in Digits THEN DigitRuns(Tail(text), Append(run, Head(text)))
    ELSE (IF run = <<>> THEN {} ELSE {run}) \cup DigitRuns(Tail(text), <<>>)

\* the runs of 8 to 14 digits in the fields of a record that the resolver reads
DigitRunsOf(product) ==
    LET fields == <<product.name, product.description, product.brand>>
                    \o product.key_features \o product.source_urls
    IN {run \in UNION {DigitRuns(fields[i], <<>>) : i \in DOMAIN fields} :
            Len(run) >= 8 /\ Len(run) <= 14}

\* C28: GTIN extraction returns every run of 8 to 14 contiguous digits of a
\* record's name, description, brand, key features and source URLs, whatever
\* characters surround it; two records that hold the same run share a code
\* and their GTIN evidence has score 1.
C28_EveryDigitRunIsACode ==
    res_pc = "done" =>
        /\ \A id \in BatchIds :
                DigitRunsOf(InputOf(id)) \subseteq _extract_gtin_codes(InputOf(id))
        /\ \A a, b \in BatchIds :
                (a # b /\ DigitRunsOf(InputOf(a)) \cap DigitRunsOf(InputOf(b)) # {}) =>
                    /\ SharedCodes(a, b) # {}
                    /\ \A i \in DOMAIN PairResult(a, b).evidence :
                            IsGtinEvidence(PairResult(a, b).evidence[i]) =>
                                REq(PairResult(a, b).evidence[i].score, R(1, 1))

(***************************************************************************)
(* The matched flag and the clusters                                       *)
(***************************************************************************)
\* C29: for every configuration and batch, the matched flag of a record's
\* match_decision is true exactly when another record of the batch has the
\* same canonical_product_id.
C29_MatchedFlagAgreesWithCluster ==
    res_pc = "done" =>
        \A id \in BatchIds :
            OutputOf(id).match_decision # <<>> =>
                (OutputOf(id).match_decision[1].matched
                    <=> \E other \in BatchIds \ {id} :
                            /\ OutputOf(other).canonical_product_id # <<>>
                            /\ OutputOf(other).canonical_product_id
                                    = OutputOf(id).canonical_product_id)

(***************************************************************************)
(* Adding an unrelated record                                              *)
(***************************************************************************)
\* the canonical id that id receives when the batch is resolved without extra
IdWithout(extra, id) ==
    LET items == SelectSeq(products_by_id, LAMBDA item : item[1] # extra)
        out == assign_canonical_products(res_config, store_before, items)
    IN out.store[RefOf(out.products, id)].canonical_product_id

\* C30: a record that is matched with no other record of the batch does not
\* change the canonical ids of the others: each of them receives the id it
\* receives when the batch is resolved without that record.
C30_UnrelatedRecordKeepsIds ==
    res_pc = "done" =>
        \A extra \in BatchIds :
            (\A id \in BatchIds \ {extra} : ~PairResult(extra, id).matched) =>
                \A id \in BatchIds \ {extra} :
                    OutputOf(id).canonical_product_id = IdWithout(extra, id)

=============================================================================
